---- MODULE Spec2Model ----
(***************************************************************************)
(* Data-acquisition core of script.js: the localStorage cache helpers      *)
(* (saveToCache / loadFromCache) and the fetch functions built on them     *)
(* (fetchEquitySeries, fetchOilPriceSeries, fetchGasPriceSeries).          *)
(*                                                                         *)
(* JavaScript values are records tagged by a field t, so that values of    *)
(* different JavaScript types can be compared.  Prices are fixed-point     *)
(* integers in thousandths.                                                *)
(***************************************************************************)
EXTENDS Integers, Sequences, FiniteSets, TLC

VARIABLES
  storage,    \* localStorage: cache key -> stored text (or no item)
  now,        \* the wall clock read by Date.now() / new Date(), in days
  lastCall,   \* per key: the most recent saveToCache call (history)
  lastStored, \* per key: the payload of the most recent save that was stored (history)
  op,         \* the most recent direct cache-helper call and its outcome
  inv,        \* the fetch invocations: slot -> position, attempts, result
  page        \* the global variables of the page (lastMarketData, watchlistTickers, ...)

vars == <<storage, now, lastCall, lastStored, op, inv, page>>

----------------------------------------------------------------------------
\* Bounds of the model.

\* Longest provider response (bars / data items).
MaxBars == 1
\* The clock runs from 0 to MaxClock.
MaxClock == 1

----------------------------------------------------------------------------
\* JavaScript values.

Null == [t |-> "null"]
Undefined == [t |-> "undefined"]
\* An object JSON.stringify cannot serialise (a cyclic structure, a BigInt).
Circular == [t |-> "circular"]
NaN == [t |-> "nan"]
Infinity == [t |-> "inf"]
Num(n) == [t |-> "num", n |-> n]
\* A chart label: an ISO date (day number n) or the text "Day n".
DateLabel(n) == [t |-> "date", n |-> n]
DayLabel(n) == [t |-> "day", n |-> n]
Series(ls, vs) == [t |-> "series", labels |-> ls, values |-> vs]

\* JavaScript truthiness of the values a cache payload can be.
Truthy(v) == v.t \notin {"null", "undefined", "nan"} /\ v # Num(0)

\* isNaN(v) for v a number.
IsNaN(v) == v.t = "nan"

\* Number.isFinite(v).
IsFinite(v) == v.t = "num"

----------------------------------------------------------------------------
\* JSON.stringify followed by JSON.parse, on the values above: NaN and
\* Infinity are written as null; everything else is kept.
JsonNumber(v) == IF v.t \in {"nan", "inf"} THEN Null ELSE v

JsonValue(v) ==
  IF v.t = "series"
    THEN Series(v.labels, [i \in DOMAIN v.values |-> JsonNumber(v.values[i])])
    ELSE JsonNumber(v)

\* The stored texts.  getItem returns null for a key without item.
NoItem == [t |-> "noitem"]
EmptyText == [t |-> "text", body |-> "empty"]        \* ""
GarbageText == [t |-> "text", body |-> "garbage"]    \* not JSON
JsonNullText == [t |-> "text", body |-> "null"]      \* the JSON text null
JsonOtherText == [t |-> "text", body |-> "other"]    \* JSON without a data field: {} or 5
\* The text of {timestamp, data}; a data of undefined is left out by JSON.stringify.
RecordText(ts, d) ==
  [t |-> "text", body |-> "record", timestamp |-> ts,
   hasData |-> d.t # "undefined",
   data |-> IF d.t = "undefined" THEN Undefined ELSE JsonValue(d)]

\* Outcome of a block of code: a value returned, or an exception thrown.
Return(v) == [threw |-> FALSE, value |-> v]
Throw == [threw |-> TRUE, value |-> Undefined]

\* How the storage medium behaves during one call: it works, setItem
\* throws QuotaExceededError, or every access to localStorage throws.
Mediums == {"ok", "quota", "disabled"}

\* script.js:22-23, the body of the try block of saveToCache: the storage
\* after it, and whether it threw.
SaveTry(st, medium, ts, key, data) ==
  IF data.t = "circular" \/ medium # "ok"
    THEN [threw |-> TRUE, storage |-> st]
    ELSE [threw |-> FALSE, storage |-> [st EXCEPT ![key] = RecordText(ts, data)]]

\* A saveToCache whose catch block is missing.
saveToCache_NoCatch(st, medium, ts, key, data) == SaveTry(st, medium, ts, key, data)

\* A saveToCache that never replaces an entry that is already there.
saveToCache_KeepFirst(st, medium, ts, key, data) ==
  LET r == SaveTry(st, medium, ts, key, data) IN
  IF r.threw \/ st[key] # NoItem THEN [threw |-> FALSE, storage |-> st] ELSE r

\* script.js:20-27.
saveToCache(st, medium, ts, key, data) ==
  LET r == SaveTry(st, medium, ts, key, data) IN
  IF r.threw THEN [threw |-> FALSE, storage |-> st] ELSE r

\* script.js:31-34, the body of the try block of loadFromCache.
LoadTry(st, medium, key) ==
  LET raw == st[key] IN
  IF medium = "disabled" THEN Throw
  ELSE IF raw = NoItem \/ raw = EmptyText THEN Return(Null)
  ELSE IF raw = GarbageText THEN Throw          \* JSON.parse throws
  ELSE IF raw = JsonNullText THEN Throw         \* null.data throws
  ELSE IF raw = JsonOtherText THEN Return(Undefined)
  ELSE IF raw.hasData THEN Return(raw.data) ELSE Return(Undefined)

\* A loadFromCache whose catch block is missing.
loadFromCache_NoCatch(st, medium, key) == LoadTry(st, medium, key)

\* A loadFromCache that treats an entry older than the clock as expired.
loadFromCache_Expiring(st, medium, key) ==
  LET r == LoadTry(st, medium, key) IN
  IF r.threw THEN Return(Null)
  ELSE IF st[key] \notin {NoItem, EmptyText, JsonOtherText} /\ st[key].timestamp < now
    THEN Return(Null)
  ELSE r

\* script.js:29-38.
loadFromCache(st, medium, key) ==
  LET r == LoadTry(st, medium, key) IN
  IF r.threw THEN Return(Null) ELSE r

----------------------------------------------------------------------------
\* The cache helpers called directly.

\* The keys of the two EIA price series (script.js:3219, 3260).
Keys == {"oilPriceSeries", "gasPriceSeries"}

\* The fetch invocations that can be under way at once.
Slots == {"a"}

\* The dates of a series of n points.
Dates(n) == [i \in 1..n |-> DateLabel(i)]

\* The payloads handed to saveToCache: a series of finite values, a series
\* with a NaN in it, null, undefined, and an unserialisable object.
Payloads ==
  {Series(Dates(2), <<Num(1), Num(2)>>), Series(Dates(2), <<Num(1), NaN>>),
   Null, Undefined, Circular}

\* What may lie under a key when the page loads and nothing valid was saved.
BrokenCells == {NoItem, EmptyText, GarbageText, JsonNullText, JsonOtherText}

None == [t |-> "none"]
NoOp == [name |-> "none", key |-> "", medium |-> "ok", threw |-> FALSE, value |-> None]
Idle == [fn |-> "none", arg |-> "", pc |-> "idle", attempts |-> <<>>,
         threw |-> FALSE, result |-> None, tier |-> "none",
         cell |-> None, medium |-> "ok"]

TypeOK ==
  /\ DOMAIN storage = Keys
  /\ now \in 0..MaxClock
  /\ DOMAIN lastCall = Keys
  /\ DOMAIN lastStored = Keys
  /\ op.name \in {"none", "load"}
  /\ DOMAIN inv = Slots

CacheInit ==
  /\ storage \in [Keys -> BrokenCells]
  /\ now = 0
  /\ lastCall = [k \in Keys |-> None]
  /\ lastStored = [k \in Keys |-> None]
  /\ op = NoOp
  /\ inv = [s \in Slots |-> Idle]
  /\ page = None

\* Whether the medium takes the write of `data`: history, not read by the code.
Accepted(data, medium) == medium = "ok" /\ data # Circular

\* saveToCache(key, data) called while the medium behaves as `medium`.  The
\* history keeps the payload, whether the medium worked, whether the call
\* threw, and whether it left the storage as it was.
Save(key, data, medium) ==
  LET r == saveToCache(storage, medium, now, key, data) IN
  /\ storage' = r.storage
  /\ lastCall' = [lastCall EXCEPT ![key] =
       [data |-> data, medium |-> IF medium = "ok" THEN "ok" ELSE "failing",
        threw |-> r.threw, kept |-> r.storage = storage]]
  /\ lastStored' =
       IF Accepted(data, medium) THEN [lastStored EXCEPT ![key] = data] ELSE lastStored
  /\ op' = NoOp
  /\ UNCHANGED <<now, inv, page>>

\* loadFromCache(key) called while the medium behaves as `medium`.
Load(key, medium) ==
  LET r == loadFromCache(storage, medium, key) IN
  /\ op' = [name |-> "load", key |-> key, medium |-> medium,
            threw |-> r.threw, value |-> r.value]
  /\ UNCHANGED <<storage, now, lastCall, lastStored, inv, page>>

\* Time passes.
Tick ==
  /\ now < MaxClock
  /\ now' = now + 1
  /\ UNCHANGED <<storage, lastCall, lastStored, op, inv, page>>

SaveCall == \E key \in Keys, data \in Payloads, medium \in Mediums : Save(key, data, medium)
LoadCall == \E key \in Keys, medium \in {"ok", "disabled"} : Load(key, medium)

CacheNext == SaveCall \/ LoadCall \/ Tick

CacheSpec == CacheInit /\ [][CacheNext]_vars

----------------------------------------------------------------------------
\* Provider responses.

Str(s) == [t |-> "str", s |-> s]

\* parseFloat(x), and x itself when typeof x is 'number' (script.js:2841).
ParseFloat(x) ==
  IF x.t = "num" THEN x
  ELSE IF x.t = "str" /\ x.s = "2" THEN Num(2000)
  ELSE IF x.t = "str" /\ x.s = "Infinity" THEN Infinity
  ELSE NaN

\* Number(x) (script.js:3216).
NumberOf(x) ==
  IF x.t = "num" THEN x
  ELSE IF x.t = "str" /\ x.s = "2" THEN Num(2000)
  ELSE IF x.t = "str" /\ x.s = "Infinity" THEN Infinity
  ELSE IF x.t = "null" \/ (x.t = "str" /\ x.s = "") THEN Num(0)
  ELSE NaN

\* The close of a bar in a response: a number, numeric text, other text.
Closes == {Num(1000), Str("2"), Str("abc")}
\* The value of an EIA data item: a number, text that is no number.
EiaValues == {Num(1000), Str("abc")}

\* The fetch rejects, or the body is not JSON.
NetError == [kind |-> "neterr", present |-> FALSE, items |-> <<>>]
\* A JSON body; present tells whether it holds the field the parser reads.
Json(present, items) == [kind |-> "json", present |-> present, items |-> items]

Perms(n) == {f \in [1..n -> 1..n] : \A i, j \in 1..n : f[i] = f[j] => i = j}

\* Up to MaxBars dated items, the dates distinct, in any order.
ItemSeqs(Raw) ==
  UNION {{[i \in 1..n |-> [at |-> f[i], v |-> vs[i]]] : f \in Perms(n), vs \in [1..n -> Raw]} :
         n \in 0..MaxBars}

Responses(Raw) ==
  {NetError, Json(FALSE, <<>>)} \cup {Json(TRUE, items) : items \in ItemSeqs(Raw)}

\* The index of the item of the earliest date.
EarliestIndex(items) ==
  CHOOSE i \in 1..Len(items) : \A j \in 1..Len(items) : items[i].at <= items[j].at

Without(items, i) == SubSeq(items, 1, i - 1) \o SubSeq(items, i + 1, Len(items))

RECURSIVE SortByDate(_)
\* Array.prototype.sort by date, ascending (script.js:2862, 3211).
SortByDate(items) ==
  IF Len(items) <= 1 THEN items
  ELSE LET i == EarliestIndex(items) IN <<items[i]>> \o SortByDate(Without(items, i))

\* slice(-n): the last n elements.
LastN(items, n) ==
  IF Len(items) <= n THEN items ELSE SubSeq(items, Len(items) - n + 1, Len(items))

----------------------------------------------------------------------------
\* fetchEquitySeries.

Symbols == {"SPY", "TSLA"}

\* Points of the sample series (script.js:2808).
SampleLen == 30
\* Dates kept of the AlphaVantage series (script.js:2862).
SliceLen == 30

\* Math.sin(i / 5) * 8 for i = 0..29, in thousandths.
SinTerm ==
  <<0, 1589, 3115, 4517, 5739, 6732, 7456, 7884, 7997, 7791,
    7274, 6468, 5404, 4124, 2680, 1129, -467, -2044, -3540, -4895,
    -6054, -6973, -7613, -7950, -7969, -7671, -7068, -6182, -5050, -3717>>

\* A sample series one value short of its labels.
equitySample_Short(symbol) ==
  Series([i \in 1..SampleLen |-> DayLabel(i)],
         [i \in 1..(SampleLen - 1) |-> Num(450000 + (i - 1) * 500)])

\* script.js:2807-2812; position i here is the source's index i - 1.
equitySample(symbol) ==
  LET base == IF symbol = "TSLA" THEN 250000 ELSE 450000 IN
  Series([i \in 1..SampleLen |-> DayLabel(i)],
         [i \in 1..SampleLen |-> Num(base + SinTerm[i] + (i - 1) * 500)])

\* script.js:2819-2851: the series, or null when anything in the try throws.
fetchFromAlpaca(resp) ==
  IF resp.kind = "neterr" THEN Null
  ELSE
    LET bars == IF resp.present THEN resp.items ELSE <<>>
        values == [i \in 1..Len(bars) |-> ParseFloat(bars[i].v)] IN
    IF Len(bars) = 0 THEN Null
    ELSE IF \A i \in 1..Len(bars) : ~IsNaN(values[i])
      THEN Series([i \in 1..Len(bars) |-> DateLabel(bars[i].at)], values)
    ELSE Null

\* script.js:2857-2867, the try block of the AlphaVantage request.
AlphaTry(resp) ==
  IF resp.kind = "neterr" \/ ~resp.present THEN Throw
  ELSE
    LET dates == LastN(SortByDate(resp.items), SliceLen)
        values == [i \in 1..Len(dates) |-> ParseFloat(dates[i].v)] IN
    IF \A i \in 1..Len(dates) : ~IsNaN(values[i])
      THEN Return(Series([i \in 1..Len(dates) |-> DateLabel(dates[i].at)], values))
    ELSE Throw

\* A fetchEquitySeries that asks AlphaVantage whatever Alpaca answered.
AlpacaWins_Never(alpacaData) == FALSE

\* script.js:2854: if (alpacaData) return alpacaData.
AlpacaWins(alpacaData) == Truthy(alpacaData)

\* The outcome of a provider as the attempts history keeps it.
Failed == [t |-> "failed"]
Attempt(provider, out) == [provider |-> provider, out |-> out]

\* script.js:2803, 2853: the call runs up to the request to Alpaca.
EquityCall(s, symbol) ==
  /\ inv[s].pc \in {"idle", "done"}
  /\ inv' = [inv EXCEPT ![s] = [Idle EXCEPT !.fn = "equity", !.arg = symbol, !.pc = "alpaca"]]
  /\ UNCHANGED <<storage, now, lastCall, lastStored, op, page>>

\* script.js:2822-2858: the Alpaca request settles; the series is returned,
\* or the request to AlphaVantage is made.
AlpacaSettles(s, resp) ==
  /\ inv[s].pc = "alpaca"
  /\ LET alpacaData == fetchFromAlpaca(resp)
         tried == Append(inv[s].attempts,
                    Attempt("alpaca", IF alpacaData = Null THEN Failed ELSE alpacaData)) IN
     inv' = [inv EXCEPT ![s] =
       IF AlpacaWins(alpacaData)
         THEN [@ EXCEPT !.pc = "done", !.attempts = tried,
                        !.result = alpacaData, !.tier = "live"]
         ELSE [@ EXCEPT !.pc = "alpha", !.attempts = tried]]
  /\ UNCHANGED <<storage, now, lastCall, lastStored, op, page>>

\* script.js:2858-2871: the AlphaVantage request settles.
AlphaSettles(s, resp) ==
  /\ inv[s].pc = "alpha"
  /\ LET r == AlphaTry(resp)
         tried == Append(inv[s].attempts,
                    Attempt("alpha", IF r.threw THEN Failed ELSE r.value)) IN
     inv' = [inv EXCEPT ![s] =
       [@ EXCEPT !.pc = "done", !.attempts = tried,
                 !.result = IF r.threw THEN equitySample(inv[s].arg) ELSE r.value,
                 !.tier = IF r.threw THEN "synthetic" ELSE "live"]]
  /\ UNCHANGED <<storage, now, lastCall, lastStored, op, page>>

----------------------------------------------------------------------------
\* fetchOilPriceSeries and fetchGasPriceSeries.

Feeds == {"oil", "gas"}

KeyOf(feed) == IF feed = "oil" THEN "oilPriceSeries" ELSE "gasPriceSeries"

\* Points of the fallback series: the loop from 364 down to 0 (script.js:3195).
FallbackDays == 365

\* Math.random(), in thousandths: the model draws one end of [0, 1) for
\* all the points of a series.
RandomDraws == {0, 999}

\* script.js:3191-3202; position j here is the source's i = 365 - j.
oilFallback(today, rnd) ==
  Series([j \in 1..FallbackDays |-> DateLabel(today - (FallbackDays - j))],
         [j \in 1..FallbackDays |-> Num(60000 + j * 20 + (rnd - 500) * 2)])

\* script.js:3233-3244.
gasFallback(today, rnd) ==
  Series([j \in 1..FallbackDays |-> DateLabel(today - (FallbackDays - j))],
         [j \in 1..FallbackDays |-> Num(2500 + j * 5 + ((rnd - 500) * 3) \div 10)])

fallback(feed, today, rnd) ==
  IF feed = "oil" THEN oilFallback(today, rnd) ELSE gasFallback(today, rnd)

\* script.js:3204-3217 (3246-3258): the request and the parse of its answer,
\* up to the call of saveToCache.
EiaTry(resp) ==
  IF resp.kind = "neterr" \/ ~resp.present \/ Len(resp.items) = 0 THEN Throw
  ELSE
    LET series == SortByDate(resp.items) IN
    Return(Series([i \in 1..Len(series) |-> DateLabel(series[i].at)],
                  [i \in 1..Len(series) |-> NumberOf(series[i].v)]))

\* What the function settles with: whether it threw, the value returned,
\* the tier it came from, the storage afterwards, and the stored text and
\* the medium the catch block met (None when it did not run).
Settled(threw, result, tier, st, cell, medium) ==
  [threw |-> threw, result |-> result, tier |-> tier, storage |-> st,
   cell |-> cell, medium |-> medium]

\* A catch block that never looks into the cache.
EiaCatch_NoCache(st, medium, feed, today, rnd) ==
  Settled(FALSE, fallback(feed, today, rnd), "synthetic", st, st[KeyOf(feed)], medium)

\* script.js:3221-3225 (3262-3266), the catch block.
EiaCatch(st, medium, feed, today, rnd) ==
  LET cached == loadFromCache(st, medium, KeyOf(feed))
      cell == st[KeyOf(feed)] IN
  IF cached.threw THEN Settled(TRUE, Undefined, "none", st, cell, medium)
  ELSE IF Truthy(cached.value) THEN Settled(FALSE, cached.value, "cached", st, cell, medium)
  ELSE Settled(FALSE, fallback(feed, today, rnd), "synthetic", st, cell, medium)

\* A fetch that answers from the cache without looking at the response.
EiaSettle_StaleFirst(st, medium, ts, feed, resp, rnd) ==
  EiaCatch(st, medium, feed, ts, rnd)

\* script.js:3203-3225 (3245-3266) from the moment the request settles.
EiaSettle(st, medium, ts, feed, resp, rnd) ==
  LET fetched == EiaTry(resp)
      saved == saveToCache(st, medium, ts, KeyOf(feed), fetched.value) IN
  IF fetched.threw THEN EiaCatch(st, medium, feed, ts, rnd)
  ELSE IF saved.threw THEN EiaCatch(saved.storage, medium, feed, ts, rnd)
  ELSE Settled(FALSE, fetched.value, "live", saved.storage, None, "ok")

\* script.js:3189, 3207: the call runs up to the request to the EIA API.
EiaCall(s, feed) ==
  /\ inv[s].pc \in {"idle", "done"}
  /\ inv' = [inv EXCEPT ![s] = [Idle EXCEPT !.fn = "eia", !.arg = feed, !.pc = "eia"]]
  /\ UNCHANGED <<storage, now, lastCall, lastStored, op, page>>

\* script.js:3207-3225: the request settles and the function returns.
EiaSettles(s, resp, medium, rnd) ==
  /\ inv[s].pc = "eia"
  /\ LET fetched == EiaTry(resp)
         r == EiaSettle(storage, medium, now, inv[s].arg, resp, rnd) IN
     /\ inv' = [inv EXCEPT ![s] =
          [@ EXCEPT !.pc = "done",
                    !.attempts = <<Attempt("eia", IF fetched.threw THEN Failed ELSE fetched.value)>>,
                    !.threw = r.threw, !.result = r.result, !.tier = r.tier,
                    !.cell = r.cell, !.medium = r.medium]]
     /\ storage' = r.storage
  /\ UNCHANGED <<now, lastCall, lastStored, op, page>>

\* What may lie under a key when the page loads: nothing, broken text, or
\* the series a fetch of an earlier visit saved.
InitialCells ==
  BrokenCells \cup {RecordText(0, Series(<<DateLabel(1)>>, <<Num(3000)>>))}

Init ==
  /\ storage \in [Keys -> InitialCells]
  /\ now = 0
  /\ lastCall = [k \in Keys |-> None]
  /\ lastStored = [k \in Keys |-> None]
  /\ op = NoOp
  /\ inv = [s \in Slots |-> Idle]
  /\ page = None

FetchEquity == \E s \in Slots, symbol \in Symbols : EquityCall(s, symbol)
AlpacaAnswers == \E s \in Slots, resp \in Responses(Closes) : AlpacaSettles(s, resp)
AlphaAnswers == \E s \in Slots, resp \in Responses(Closes) : AlphaSettles(s, resp)
FetchEia == \E s \in Slots, feed \in Feeds : EiaCall(s, feed)
EiaAnswers ==
  \E s \in Slots, resp \in Responses(EiaValues), medium \in Mediums, rnd \in RandomDraws :
    EiaSettles(s, resp, medium, rnd)

Next == FetchEquity \/ AlpacaAnswers \/ AlphaAnswers \/ FetchEia \/ EiaAnswers \/ Tick

Spec == Init /\ [][Next]_vars

----------------------------------------------------------------------------
\* Properties of the fetch functions (Spec).

Done(s) == inv[s].pc = "done"

\* Every provider the invocation asked has failed.
AllFailed(s) == \A i \in 1..Len(inv[s].attempts) : inv[s].attempts[i].out = Failed

\* The catch block met a readable medium and, under the key, a record
\* with a payload.
EntryExists(cell, medium) ==
  /\ medium # "disabled"
  /\ cell.t = "text"
  /\ cell.body = "record"
  /\ cell.hasData

\* The order in which a function asks its providers.
Chain(fn) == IF fn = "equity" THEN <<"alpaca", "alpha">> ELSE <<"eia">>

\* C1: a fetch never throws or rejects, whatever the providers answer and
\* whatever the cache holds, and what it returns is a series.
C1_AlwaysSucceeds ==
  \A s \in Slots :
    /\ ~inv[s].threw
    /\ Done(s) => inv[s].result.t = "series"

\* C1 witness: the provider failed and the storage was unavailable, and
\* the fetch returned a series all the same.
C1_Witness ==
  \E s \in Slots :
    /\ Done(s)
    /\ inv[s].fn = "eia"
    /\ AllFailed(s)
    /\ inv[s].medium = "disabled"
    /\ inv[s].cell \notin BrokenCells
    /\ inv[s].result.t = "series"

\* C2: the providers are asked in the order of the chain, none is asked
\* after one has succeeded, and the series returned is that of the first
\* provider that succeeded.
C2_FirstSuccessWins ==
  \A s \in Slots :
    inv[s].fn # "none" =>
      LET a == inv[s].attempts
          chain == Chain(inv[s].fn) IN
      /\ Len(a) <= Len(chain)
      /\ \A i \in 1..Len(a) : a[i].provider = chain[i]
      /\ \A i \in 1..(Len(a) - 1) : a[i].out = Failed
      /\ ~Done(s) => AllFailed(s)
      /\ (Done(s) /\ ~AllFailed(s)) =>
           (inv[s].result = a[Len(a)].out /\ inv[s].tier = "live")
      /\ (Done(s) /\ AllFailed(s)) => Len(a) = Len(chain)

\* C2 witness: Alpaca failed, AlphaVantage succeeded, and its series was
\* returned.
C2_Witness ==
  \E s \in Slots :
    /\ Done(s)
    /\ Len(inv[s].attempts) = 2
    /\ inv[s].attempts[1] = Attempt("alpaca", Failed)
    /\ inv[s].attempts[2].provider = "alpha"
    /\ inv[s].attempts[2].out # Failed
    /\ inv[s].result = inv[s].attempts[2].out

\* C3 as claimed: when a provider succeeded, the series returned is its
\* series and that series is in the cache, so that a load that follows
\* the return yields it.
C3_WriteThrough ==
  \A s \in Slots :
    (Done(s) /\ ~AllFailed(s)) =>
      /\ inv[s].result = inv[s].attempts[Len(inv[s].attempts)].out
      /\ \E key \in Keys : loadFromCache(storage, "ok", key) = Return(inv[s].result)

\* C4: when every provider failed and the cache holds an entry for the
\* key, the payload of that entry is returned as it is, not a synthetic
\* series.
C4_StaleReturned ==
  \A s \in Slots :
    (Done(s) /\ AllFailed(s) /\ EntryExists(inv[s].cell, inv[s].medium)) =>
      /\ inv[s].result = inv[s].cell.data
      /\ inv[s].tier = "cached"

\* C4 witness: the provider failed and the entry saved earlier was returned.
C4_Witness ==
  \E s \in Slots :
    /\ Done(s)
    /\ AllFailed(s)
    /\ EntryExists(inv[s].cell, inv[s].medium)
    /\ inv[s].cell.timestamp < now
    /\ inv[s].result = inv[s].cell.data

\* The series has `n` labels and `n` values, each finite and above zero.
PositiveSeries(series, n) ==
  /\ Len(series.labels) = n
  /\ Len(series.values) = n
  /\ \A i \in 1..Len(series.values) :
       IsFinite(series.values[i]) /\ series.values[i].n > 0

\* C5 as claimed: when every provider failed and the cache holds no entry,
\* the series returned has 30 labels and 30 values, each finite and above
\* zero.
C5_SyntheticThirty ==
  \A s \in Slots :
    (Done(s) /\ AllFailed(s) /\ ~EntryExists(inv[s].cell, inv[s].medium)) =>
      PositiveSeries(inv[s].result, 30)

\* C5 amended: in that case the equity fetch returns 30 labels and 30
\* values, the oil and gas fetches 365 labels and 365 values, each value
\* finite and above zero.
C5_SyntheticShape ==
  \A s \in Slots :
    (Done(s) /\ AllFailed(s) /\ ~EntryExists(inv[s].cell, inv[s].medium)) =>
      PositiveSeries(inv[s].result,
                     IF inv[s].fn = "equity" THEN SampleLen ELSE FallbackDays)

\* C5 witness: both equity providers failed and the sample series of 30
\* points was returned.
C5_Witness ==
  \E s \in Slots :
    /\ Done(s)
    /\ inv[s].fn = "equity"
    /\ Len(inv[s].attempts) = 2
    /\ AllFailed(s)
    /\ inv[s].result = equitySample(inv[s].arg)
    /\ Len(inv[s].result.values) = 30

\* C6: a cached payload is returned only when every provider failed, and
\* a synthetic series only when every provider failed and the cache holds
\* no entry for the key; a series called live is the provider's, one
\* called cached is the entry's payload.
C6_TierPriority ==
  \A s \in Slots :
    Done(s) =>
      /\ inv[s].tier \in {"live", "cached", "synthetic"}
      /\ inv[s].tier = "live" =>
           inv[s].result = inv[s].attempts[Len(inv[s].attempts)].out
      /\ inv[s].tier = "cached" =>
           (AllFailed(s) /\ inv[s].result = inv[s].cell.data)
      /\ inv[s].tier = "synthetic" =>
           (AllFailed(s) /\ ~EntryExists(inv[s].cell, inv[s].medium))

\* C6 witness: the provider answered while the cache held an entry, and
\* the live series was returned, not the entry.
C6_Witness ==
  \E s \in Slots :
    /\ Done(s)
    /\ inv[s].fn = "eia"
    /\ inv[s].tier = "live"
    /\ ~AllFailed(s)
    /\ now > 0
    /\ EntryExists(storage[KeyOf(inv[s].arg)], "ok")
    /\ storage[KeyOf(inv[s].arg)].timestamp < now

----------------------------------------------------------------------------
\* Properties of the cache helpers (CacheSpec).

\* The save that `data` and `medium` make fail: the medium refuses the
\* write, or the payload cannot be serialised.
SaveFails(data, medium) == medium # "ok" \/ data = Circular

\* C7: saveToCache never raises, and a save that fails (quota exceeded,
\* storage disabled, payload not serialisable) leaves every stored entry
\* as it was.
C7_SaveNeverRaises ==
  \A key \in Keys :
    lastCall[key] # None =>
      /\ ~lastCall[key].threw
      /\ SaveFails(lastCall[key].data, lastCall[key].medium) => lastCall[key].kept

\* C7 witness: a save failed, returned normally, and an earlier entry is
\* still under its key.
C7_Witness ==
  \E key \in Keys :
    /\ lastCall[key] # None
    /\ SaveFails(lastCall[key].data, lastCall[key].medium)
    /\ ~lastCall[key].threw
    /\ lastStored[key] # None
    /\ storage[key] = RecordText(storage[key].timestamp, lastStored[key])

\* The entry under `key` is missing, unparseable or no valid cache record.
NoValidRecord(cell) ==
  cell \in BrokenCells \/ ~cell.hasData

\* C8 as claimed: loadFromCache never raises, and returns null when no
\* entry is stored, when the text is unparseable or no valid cache record,
\* and when the medium fails.
C8_LoadReturnsNull ==
  op.name = "load" =>
    /\ ~op.threw
    /\ (NoValidRecord(storage[op.key]) \/ op.medium = "disabled") => op.value = Null

\* The stored text parses as JSON but holds no data field: {} or 5, or a
\* record saved with a data of undefined.
JsonWithoutData(cell) ==
  cell = JsonOtherText \/ (cell \notin BrokenCells /\ ~cell.hasData)

\* C8 amended: loadFromCache never raises; in those cases it returns an
\* absent value, which is undefined when the text is JSON without a data
\* field and the medium works, and null otherwise.
C8_LoadReturnsAbsent ==
  op.name = "load" =>
    /\ ~op.threw
    /\ (NoValidRecord(storage[op.key]) \/ op.medium = "disabled") =>
         op.value = IF JsonWithoutData(storage[op.key]) /\ op.medium = "ok"
                      THEN Undefined ELSE Null

\* C8 witness: a load of JSON text without a data field returned undefined.
C8_Witness ==
  /\ op.name = "load"
  /\ storage[op.key] = JsonOtherText
  /\ op.value = Undefined

\* C9 as claimed: a load after a save to the same key, with no save to that
\* key in between, returns the payload of that save (the medium being
\* readable at the load).
C9_RoundTrip ==
  (op.name = "load" /\ op.medium = "ok" /\ lastCall[op.key] # None) =>
    op.value = lastCall[op.key].data

\* C9 amended: when the medium took the write and is readable at the load,
\* the load returns the payload as JSON writes and reads it (NaN and
\* Infinity become null), which is the payload itself when it holds neither.
C9_RoundTripStored ==
  (op.name = "load" /\ op.medium = "ok" /\ lastCall[op.key] # None
     /\ Accepted(lastCall[op.key].data, lastCall[op.key].medium)) =>
    op.value = JsonValue(lastCall[op.key].data)

\* C9 witness: a series was saved and loaded back unchanged.
C9_Witness ==
  /\ op.name = "load"
  /\ op.medium = "ok"
  /\ lastCall[op.key] # None
  /\ Accepted(lastCall[op.key].data, lastCall[op.key].medium)
  /\ op.value = lastCall[op.key].data
  /\ op.value.t = "series"

\* C10 as claimed: a load returns the payload of the most recent successful
\* save to its key, whatever its age and whatever was saved under other keys
\* (the medium being readable at the load).
C10_LastWriteWins ==
  (op.name = "load" /\ op.medium = "ok" /\ lastStored[op.key] # None) =>
    op.value = lastStored[op.key]

\* C10 amended: with the medium readable, a load returns the payload of the
\* most recent stored save to its key as JSON writes and reads it, whatever
\* its age and whatever was saved under other keys.
C10_LastStoredWins ==
  (op.name = "load" /\ op.medium = "ok" /\ lastStored[op.key] # None) =>
    op.value = JsonValue(lastStored[op.key])

\* C10 witness: an entry older than the clock, written before a failed save
\* to its key and before a save to the other key, was loaded.
C10_Witness ==
  /\ op.name = "load"
  /\ op.medium = "ok"
  /\ lastStored[op.key] # None
  /\ SaveFails(lastCall[op.key].data, lastCall[op.key].medium)
  /\ storage[op.key].timestamp < now
  /\ \E other \in Keys \ {op.key} :
       /\ lastStored[other] # None
       /\ storage[other].timestamp = now
  /\ op.value = lastStored[op.key]

----------------------------------------------------------------------------
\* Properties of the provider parsers (Spec).

\* C11 as claimed: a response with a value that is no finite number is a
\* failure of its provider: a series served live holds finite values only,
\* and so does every series in the cache.
C11_InvalidRejected ==
  /\ \A s \in Slots :
       (Done(s) /\ inv[s].tier = "live") =>
         \A i \in DOMAIN inv[s].result.values : IsFinite(inv[s].result.values[i])
  /\ \A k \in Keys :
       EntryExists(storage[k], "ok") =>
         \A i \in DOMAIN storage[k].data.values : IsFinite(storage[k].data.values[i])

\* The series a fetch returns has one value per label, whichever tier served it.
FetchLengthsEqual ==
  \A s \in Slots :
    Done(s) => Len(inv[s].result.labels) = Len(inv[s].result.values)

----------------------------------------------------------------------------
\* JavaScript arithmetic on the numbers of the charts and of the statistics.
\* A finite number is kept exactly, as (n / d) * sqrt(r) with d > 0, n and d
\* coprime and r free of squares (r = 1 for a rational number); the rounding
\* of doubles and the sign of zero are not modelled.  Division by zero and
\* the operations on NaN and on the infinities follow IEEE 754.

NegInfinity == [t |-> "-inf"]

Abs(n) == IF n < 0 THEN -n ELSE n

RECURSIVE GCD(_, _)
GCD(a, b) == IF b = 0 THEN a ELSE GCD(b, a % b)

\* The largest q with q * q dividing k, searched from s on; `best` when
\* there is none.
LargestSquare(k, s, best) ==
  LET found == {best} \cup {q \in s..k : q <= k \div q /\ k % (q * q) = 0} IN
  CHOOSE q \in found : \A other \in found : other <= q

\* The number (n / d) * sqrt(r) in its normal form; d > 0, r free of squares.
Real(n, d, r) ==
  IF n = 0 THEN [t |-> "num", n |-> 0, d |-> 1, r |-> 1]
  ELSE LET g == GCD(Abs(n), d) IN
       [t |-> "num", n |-> n \div g, d |-> d \div g, r |-> r]

Rat(n, d) == Real(n, d, 1)
Whole(n) == Real(n, 1, 1)

IsInf(v) == v.t \in {"inf", "-inf"}
IsZero(v) == v.t = "num" /\ v.n = 0

\* The sign of a number that is not NaN.
Sgn(v) ==
  IF v.t = "inf" THEN 1
  ELSE IF v.t = "-inf" THEN -1
  ELSE IF v.n > 0 THEN 1 ELSE IF v.n < 0 THEN -1 ELSE 0

InfOf(sign) == IF sign < 0 THEN NegInfinity ELSE Infinity

\* -a
Neg(a) ==
  IF IsNaN(a) THEN NaN
  ELSE IF IsInf(a) THEN InfOf(-Sgn(a))
  ELSE [a EXCEPT !.n = -a.n]

\* a * b
Mul(a, b) ==
  IF IsNaN(a) \/ IsNaN(b) THEN NaN
  ELSE IF IsInf(a) \/ IsInf(b)
    THEN IF Sgn(a) * Sgn(b) = 0 THEN NaN ELSE InfOf(Sgn(a) * Sgn(b))
  ELSE LET g == GCD(a.r, b.r) IN
       Real(a.n * b.n * g, a.d * b.d, (a.r \div g) * (b.r \div g))

\* a / b
Div(a, b) ==
  IF IsNaN(a) \/ IsNaN(b) THEN NaN
  ELSE IF IsInf(a)
    THEN IF IsInf(b) THEN NaN
         ELSE InfOf(Sgn(a) * (IF Sgn(b) < 0 THEN -1 ELSE 1))
  ELSE IF IsInf(b) THEN Whole(0)
  ELSE IF b.n = 0 THEN (IF a.n = 0 THEN NaN ELSE InfOf(Sgn(a)))
  ELSE Mul(a, Real(b.d * Sgn(b), Abs(b.n) * b.r, b.r))

\* a + b; two finite operands other than 0 share their root (the code adds
\* rational numbers only).
Add(a, b) ==
  IF IsNaN(a) \/ IsNaN(b) THEN NaN
  ELSE IF IsInf(a) THEN (IF IsInf(b) /\ a # b THEN NaN ELSE a)
  ELSE IF IsInf(b) THEN b
  ELSE IF a.n = 0 THEN b
  ELSE IF b.n = 0 THEN a
  ELSE LET g == GCD(a.d, b.d) IN
       Real(a.n * (b.d \div g) + b.n * (a.d \div g), (a.d \div g) * b.d, a.r)

\* a - b
Sub(a, b) == Add(a, Neg(b))

\* The square root of the whole number k >= 0.
RootOf(k) ==
  IF k = 0 THEN Real(0, 1, 1)
  ELSE LET s == LargestSquare(k, 1, 1) IN Real(s, 1, k \div (s * s))

\* Math.sqrt(a), a rational when finite.
Sqrt(a) ==
  IF IsNaN(a) \/ a = NegInfinity THEN NaN
  ELSE IF a = Infinity THEN Infinity
  ELSE IF a.n < 0 THEN NaN
  ELSE Div(RootOf(a.n), RootOf(a.d))

\* a < b, for rational numbers and the infinities; false when either is NaN.
Less(a, b) ==
  IF IsNaN(a) \/ IsNaN(b) THEN FALSE
  ELSE IF IsInf(a) \/ IsInf(b)
    THEN a # b /\ (a = NegInfinity \/ b = Infinity)
  ELSE a.n * b.d < b.n * a.d

\* a === b on numbers: NaN equals nothing, itself included.
StrictEq(a, b) == ~IsNaN(a) /\ ~IsNaN(b) /\ a = b

\* The sum of xs[lo..hi]; the arithmetic being exact, the order of the
\* additions does not matter and the range is halved.
RECURSIVE SumRange(_, _, _)
SumRange(xs, lo, hi) ==
  IF lo > hi THEN Whole(0)
  ELSE IF lo = hi THEN xs[lo]
  ELSE LET mid == (lo + hi) \div 2 IN
       Add(SumRange(xs, lo, mid), SumRange(xs, mid + 1, hi))

\* The sum of a sequence of numbers: reduce((a, b) => a + b, 0).
SumOf(xs) == SumRange(xs, 1, Len(xs))

----------------------------------------------------------------------------
\* The series normalisers: the alignment and rebasing done for the charts.

\* Longest series handed to a normaliser.
MaxPoints == 3

\* JavaScript falsiness of a number, null or undefined.
Falsy(v) == ~Truthy(v) \/ IsZero(v)

\* values.findIndex(v => v !== null), counted from 1; 0 when there is none.
\* The series hold numbers and null, never undefined, so v != null
\* (script.js:2967) finds the same index.
FirstNonNull(values) ==
  IF \E i \in DOMAIN values : values[i] # Null
    THEN CHOOSE i \in DOMAIN values :
           values[i] # Null /\ \A j \in 1..(i - 1) : values[j] = Null
    ELSE 0

\* script.js:1346-1350, the body of the loop that normalises one series.
normalized(series) ==
  LET baseIndex == FirstNonNull(series)
      base == IF baseIndex > 0 THEN series[baseIndex] ELSE Whole(1) IN
  [i \in DOMAIN series |->
     IF series[i] # Null /\ ~Falsy(base)
       THEN Mul(Div(series[i], base), Whole(100)) ELSE Null]

\* script.js:1674-1676, the same normalisation in renderPortfolioPerformance.
norm(values) ==
  LET baseIdx == FirstNonNull(values)
      baseVal == IF baseIdx > 0 THEN values[baseIdx] ELSE Whole(1) IN
  [i \in DOMAIN values |->
     IF values[i] # Null /\ ~Falsy(baseVal)
       THEN Mul(Div(values[i], baseVal), Whole(100)) ELSE Null]

\* script.js:2966-2970, normalize(values) of renderStockOverview.
normalize(values) ==
  LET baseIndex == FirstNonNull(values)
      base == IF baseIndex > 0 THEN values[baseIndex] ELSE Whole(1) IN
  [i \in DOMAIN values |->
     IF values[i] # Null THEN Mul(Div(values[i], base), Whole(100)) ELSE Null]

\* typeof v === 'number' && !isNaN(v)
IsValidNumber(v) == v.t \in {"num", "inf", "-inf"}

\* script.js:5964-5971, item.normValues of renderMacroMultiChart.
normValues(values) ==
  LET base == IF \E i \in DOMAIN values : IsValidNumber(values[i])
                THEN values[CHOOSE i \in DOMAIN values :
                       IsValidNumber(values[i])
                       /\ \A j \in 1..(i - 1) : ~IsValidNumber(values[j])]
                ELSE Undefined
      baseValue == IF Falsy(base) THEN Whole(1) ELSE base IN
  [i \in DOMAIN values |->
     LET val == IF IsValidNumber(values[i]) THEN values[i] ELSE baseValue IN
     Mul(Div(val, baseValue), Whole(100))]

\* priceMap[date] ?? null (script.js:1341-1342): the value of the last point
\* of the series dated `date`, null when there is none.
PriceAt(series, date) ==
  LET at == {i \in DOMAIN series.labels : series.labels[i] = date} IN
  IF at = {} THEN Null
  ELSE series.values[CHOOSE i \in at : \A j \in at : j <= i]

\* The watchlist symbols of the equities and of the crypto asset fetched.
EquityNames == <<"AAA", "BBB">>
CryptoName == "BTC"

\* script.js:1327-1343: the label axis and the series put on it, before the
\* normalisation.  `equities` and `cryptos` are the series fetched, in
\* watchlist order.
historyLabels(equities, cryptos) ==
  IF Len(equities) > 0 THEN equities[1].labels
  ELSE IF Len(cryptos) > 0 THEN cryptos[1].labels
  ELSE <<>>

historyDatasets(equities, cryptos) ==
  LET labels == historyLabels(equities, cryptos) IN
  [key \in {EquityNames[i] : i \in 1..Len(equities)}
             \cup (IF Len(cryptos) > 0 THEN {CryptoName} ELSE {}) |->
     IF key = CryptoName
       THEN [p \in 1..Len(labels) |-> PriceAt(cryptos[1], labels[p])]
       ELSE equities[CHOOSE i \in 1..Len(equities) : EquityNames[i] = key].values]

\* script.js:1323-1352, fetchHistoryData once the series are fetched.
fetchHistoryData(equities, cryptos) ==
  LET datasets == historyDatasets(equities, cryptos) IN
  [labels |-> historyLabels(equities, cryptos),
   datasets |-> [key \in DOMAIN datasets |-> normalized(datasets[key])]]

\* Math.sin(i / 3) * 5 for i = 0..29, in thousandths.
SinThird ==
  <<0, 1636, 3092, 4207, 4860, 4977, 4546, 3615, 2286, 706,
    -953, -2506, -3784, -4645, -4995, -4795, -4067, -2891, -1397, 251,
    1871, 3285, 4337, 4913, 4947, 4436, 3438, 2061, 457, -1198>>

PerformanceLen == 30

\* script.js:1680-1681: the synthetic series of the ticker at index k
\* (counted from 0) of the tickers.
performanceFallback(k) ==
  [j \in 1..PerformanceLen |->
     Rat(100000 + SinThird[j] + (j - 1) * (k + 1) * 1000, 1000)]

\* script.js:1654-1684, the loop of renderPortfolioPerformance over the
\* tickers up to the k-th, given the series fetchEquitySeries returned.
RECURSIVE performanceLoop(_, _)
performanceLoop(fetched, k) ==
  IF k = 0 THEN [labels |-> <<>>, datasets |-> <<>>]
  ELSE
    LET before == performanceLoop(fetched, k - 1)
        series == fetched[k]
        labels == IF Len(before.labels) = 0 THEN series.labels ELSE before.labels IN
    IF Len(series.values) > 0
      THEN [labels |-> labels,
            datasets |-> Append(before.datasets, norm(series.values))]
      ELSE [labels |-> IF Len(labels) = 0
                         THEN [j \in 1..PerformanceLen |-> DayLabel(j)]
                         ELSE labels,
            datasets |-> Append(before.datasets, performanceFallback(k - 1))]

renderPortfolioPerformance(fetched) == performanceLoop(fetched, Len(fetched))

\* The prices of the series handed to the normalisers.
Prices == {Whole(0), Whole(5), Whole(10), Whole(20), Whole(30)}

SeqsUpTo(S, lo, hi) == UNION {[1..n -> S] : n \in lo..hi}

LabelsFrom(first, n) == [i \in 1..n |-> DateLabel(first + i - 1)]

\* What fetchEquitySeries and fetchCryptoSeries can return: dated prices,
\* from one day or the next on; an empty series is what AlphaVantage yields
\* for an empty 'Time Series (Daily)' object.
Fetched ==
  {Series(LabelsFrom(f, Len(vs)), vs) : f \in {1, 2}, vs \in SeqsUpTo(Prices, 0, MaxPoints)}

\* The series of a second equity and of a crypto asset.
FetchedToo ==
  {Series(LabelsFrom(1, 1), <<Whole(10)>>),
   Series(LabelsFrom(2, 2), <<Whole(10), Whole(20)>>)}

\* The values of a series fetchEquitySeries returned, handed to normalize.
ChartValues == SeqsUpTo(Prices, 0, MaxPoints)

\* The observations of a macro series: parseFloat of the text of each
\* (script.js:5928), NaN for the '.' of a missing observation.
MacroValues == SeqsUpTo({Whole(0), Whole(10), Whole(20), NaN}, 0, MaxPoints)

\* A call about to be made, and the call made with the value it returned.
Calling(name, input) == [name |-> "calling", fn |-> name, input |-> input]
Called(name, input, value) ==
  [name |-> name, input |-> input, threw |-> FALSE, value |-> value]

\* The arguments of fetchHistoryData: the series fetched for the equities
\* and for the crypto assets of the watchlist.
HistoryInputs ==
  {[equities |-> IF none THEN <<>> ELSE <<first>> \o others, cryptos |-> cryptos] :
     first \in Fetched, others \in SeqsUpTo(FetchedToo, 0, 1),
     cryptos \in SeqsUpTo(FetchedToo, 0, 1), none \in BOOLEAN}

\* The series fetched for the tickers of renderPortfolioPerformance.
PerformanceInputs ==
  {<<first>> \o others : first \in Fetched, others \in SeqsUpTo(FetchedToo, 0, 1)}

NormalizerInit ==
  /\ storage = [k \in Keys |-> NoItem]
  /\ now = 0
  /\ lastCall = [k \in Keys |-> None]
  /\ lastStored = [k \in Keys |-> None]
  /\ op \in {Calling("fetchHistoryData", i) : i \in HistoryInputs}
       \cup {Calling("renderPortfolioPerformance", i) : i \in PerformanceInputs}
       \cup {Calling("normalize", i) : i \in ChartValues}
       \cup {Calling("renderMacroMultiChart", i) : i \in MacroValues}
  /\ inv = [s \in Slots |-> Idle]
  /\ page = None

HistoryCall ==
  /\ op.name = "calling"
  /\ op.fn = "fetchHistoryData"
  /\ op' = Called("fetchHistoryData",
                  [equities |-> op.input.equities, cryptos |-> op.input.cryptos,
                   aligned |-> historyDatasets(op.input.equities, op.input.cryptos)],
                  fetchHistoryData(op.input.equities, op.input.cryptos))
  /\ UNCHANGED <<storage, now, lastCall, lastStored, inv, page>>

PerformanceCall ==
  /\ op.name = "calling"
  /\ op.fn = "renderPortfolioPerformance"
  /\ op' = Called("renderPortfolioPerformance", op.input,
                  renderPortfolioPerformance(op.input))
  /\ UNCHANGED <<storage, now, lastCall, lastStored, inv, page>>

NormalizeCall ==
  /\ op.name = "calling"
  /\ op.fn = "normalize"
  /\ op' = Called("normalize", op.input, normalize(op.input))
  /\ UNCHANGED <<storage, now, lastCall, lastStored, inv, page>>

MacroCall ==
  /\ op.name = "calling"
  /\ op.fn = "renderMacroMultiChart"
  /\ op' = Called("renderMacroMultiChart", op.input, normValues(op.input))
  /\ UNCHANGED <<storage, now, lastCall, lastStored, inv, page>>

NormalizerNext == HistoryCall \/ PerformanceCall \/ NormalizeCall \/ MacroCall

NormalizerSpec == NormalizerInit /\ [][NormalizerNext]_vars

----------------------------------------------------------------------------
\* Properties of the normalisers (NormalizerSpec).

\* The datasets of a chart, as a set of value sequences.
ChartDatasets ==
  IF op.name = "fetchHistoryData"
    THEN {op.value.datasets[k] : k \in DOMAIN op.value.datasets}
  ELSE IF op.name = "renderPortfolioPerformance"
    THEN {op.value.datasets[i] : i \in DOMAIN op.value.datasets}
  ELSE {}

\* C12 as claimed, for the series produced by alignment: every series put
\* on the label axis of a chart has exactly as many values as the axis has
\* labels.
C12_EqualLengths ==
  \A values \in ChartDatasets : Len(values) = Len(op.value.labels)

\* `out` is `in` divided by its first non-absent value and multiplied by
\* 100, the base being 1 when that value is 0 or there is none.
Rebased(in, out) ==
  LET first == FirstNonNull(in)
      base == IF first > 0 /\ ~IsZero(in[first]) THEN in[first] ELSE Whole(1) IN
  /\ DOMAIN out = DOMAIN in
  /\ \A j \in DOMAIN in :
       in[j] # Null => out[j] = Mul(Div(in[j], base), Whole(100))

\* C13 as claimed: rebasing divides every non-absent value by the first
\* non-absent value and multiplies by 100, with a base of 1 when that value
\* is zero or absent, so that every non-absent input yields a finite number.
C13_Rebase ==
  /\ op.name = "normalize" => Rebased(op.input, op.value)
  /\ op.name = "fetchHistoryData" =>
       \A k \in DOMAIN op.value.datasets :
         Rebased(op.input.aligned[k], op.value.datasets[k])

\* The series fetched for the dataset `k` of fetchHistoryData.
FetchedFor(k) ==
  IF k = CryptoName THEN op.input.cryptos[1]
  ELSE op.input.equities[CHOOSE i \in 1..Len(op.input.equities) : EquityNames[i] = k]

\* `out` lies on the axis `labels` and is absent wherever `series` has no
\* point or an absent point.
OnAxis(labels, series, out) ==
  /\ Len(out) = Len(labels)
  /\ \A p \in 1..Len(labels) :
       PriceAt(series, labels[p]) = Null => out[p] = Null

\* C14 as claimed: the series of a chart share its label axis, a label for
\* which a series has no point maps to absent, and an absent point of the
\* input is absent in the output, never a base or a neighbouring value.
C14_NoFabrication ==
  /\ op.name = "fetchHistoryData" =>
       \A k \in DOMAIN op.value.datasets :
         OnAxis(op.value.labels, FetchedFor(k), op.value.datasets[k])
  /\ op.name = "renderPortfolioPerformance" =>
       \A i \in DOMAIN op.value.datasets :
         Len(op.input[i].values) > 0 =>
           OnAxis(op.value.labels, op.input[i], op.value.datasets[i])
  /\ op.name = "renderMacroMultiChart" =>
       \A j \in DOMAIN op.input :
         ~IsValidNumber(op.input[j]) => ~IsValidNumber(op.value[j])

----------------------------------------------------------------------------
\* The portfolio statistics of setupPortfolioAnalytics.

\* Longest return series and price series enumerated value by value.
MaxReturns == 3

\* arr[i] read as a number, i counted from 0: undefined, and so NaN, past
\* the end of the array.
At(arr, i) == IF (i + 1) \in DOMAIN arr THEN arr[i + 1] ELSE NaN

\* Math.pow(x, 2)
Square(x) == Mul(x, x)

\* script.js:626-634: the weighted sum of the asset returns of each day.
portfolioReturns(assetReturns, weights, numDays) ==
  [d \in 1..numDays |->
     SumOf([i \in 1..Len(assetReturns) |-> Mul(assetReturns[i][d], weights[i])])]

\* script.js:639
meanReturn(returns) == Div(SumOf(returns), Whole(Len(returns)))

\* script.js:640
variance(returns) ==
  Div(SumOf([i \in DOMAIN returns |-> Square(Sub(returns[i], meanReturn(returns)))]),
      Whole(Len(returns)))

\* script.js:641-642, in percent a year.
volatility(returns) ==
  Mul(Mul(Sqrt(variance(returns)), Sqrt(Whole(252))), Whole(100))

\* A Sharpe ratio computed whatever the volatility.
sharpeRatio_Unguarded(mean, vol) == Div(Mul(mean, Whole(252)), Div(vol, Whole(100)))

\* script.js:643
sharpeRatio(mean, vol) ==
  IF StrictEq(vol, Whole(0)) THEN Whole(0)
  ELSE Div(Mul(mean, Whole(252)), Div(vol, Whole(100)))

\* The largest of a non-empty set of numbers.
Greatest(S) == CHOOSE x \in S : \A y \in S : ~Less(x, y)

\* script.js:645-653, the loop over the returns, by what its variables hold
\* after the first k returns: cum is their sum, peak the largest cum so far
\* (0 at least) and maxDD the largest peak - cum so far (0 at least).
cumAfter(returns, k) == SumRange(returns, 1, k)

\* A loop whose peak starts at the first cumulative return instead of 0.
peakAfter_FromFirst(returns, k) ==
  Greatest({cumAfter(returns, j) : j \in 1..k})

peakAfter(returns, k) ==
  Greatest({Whole(0)} \cup {cumAfter(returns, j) : j \in 1..k})

maxDD(returns) ==
  Greatest({Whole(0)} \cup
           {Sub(peakAfter(returns, k), cumAfter(returns, k)) : k \in 1..Len(returns)})

\* script.js:654
maxDrawdown(returns) == Mul(maxDD(returns), Whole(100))

\* The place of xs[i] in the ascending order, equal numbers kept in order.
Rank(xs, i) ==
  1 + Cardinality({j \in DOMAIN xs :
                     Less(xs[j], xs[i]) \/ (xs[j] = xs[i] /\ j < i)})

\* A sort that puts the largest return first.
sortedReturns_Descending(xs) ==
  [k \in DOMAIN xs |-> xs[CHOOSE i \in DOMAIN xs : Rank(xs, i) = Len(xs) + 1 - k]]

\* script.js:656: [...portfolioReturns].sort((a, b) => a - b)
sortedReturns(xs) ==
  [k \in DOMAIN xs |-> xs[CHOOSE i \in DOMAIN xs : Rank(xs, i) = k]]

\* script.js:657-660: the value at risk at p percent, in percent.
valueAtRisk(returns, p) ==
  LET sorted == sortedReturns(returns)
      idx == (Len(sorted) * p) \div 100 IN
  Mul(Neg(At(sorted, idx)), Whole(100))

\* script.js:796-814, correlationMatrix(data).
correlationMatrix(data) ==
  LET m == Len(data)
      n == Len(data[1])
      means == [i \in 1..m |-> Div(SumOf(data[i]), Whole(n))]
      stds == [i \in 1..m |->
                 Sqrt(Div(SumOf([k \in DOMAIN data[i] |->
                                   Square(Sub(data[i][k], means[i]))]),
                          Whole(n)))]
      cov(i, j) ==
        Div(SumOf([k \in 1..n |->
                     Mul(Sub(At(data[i], k - 1), means[i]),
                         Sub(At(data[j], k - 1), means[j]))]),
            Whole(n)) IN
  [i \in 1..m |-> [j \in 1..m |-> Div(cov(i, j), Mul(stds[i], stds[j]))]]

\* script.js:591-660 and 793-815: the statistics setupPortfolioAnalytics
\* shows, for the returns and the weights it drew.
setupPortfolioAnalytics(assetReturns, weights, numDays) ==
  LET returns == portfolioReturns(assetReturns, weights, numDays) IN
  [portfolioReturns |-> returns,
   volatility |-> volatility(returns),
   sharpeRatio |-> sharpeRatio(meanReturn(returns), volatility(returns)),
   maxDrawdown |-> maxDrawdown(returns),
   var95 |-> valueAtRisk(returns, 5),
   var99 |-> valueAtRisk(returns, 1),
   corrMatrix |-> correlationMatrix(assetReturns)]

\* The daily returns drawn: Math.random() gives any of them.
Drifts == {Whole(-1), Whole(0), Whole(1), Whole(2)}

\* numDays is 60 in the source; the statistics are functions of the return
\* series and are applied to shorter series as well, the empty one included.
NumDays == 60

\* A return series of n distinct returns in no order.
Scattered(n, step) == [i \in 1..n |-> Whole(((i * step) % n) - 5)]

\* Returns of 1%, 3%, -2% and 1%.
DrawdownExample == <<Rat(1, 100), Rat(3, 100), Rat(-2, 100), Rat(1, 100)>>

\* The return series of one asset: every short series, and long ones.
ReturnSeries ==
  SeqsUpTo(Drifts, 0, MaxReturns)
    \cup {Scattered(n, step) : n \in {20, NumDays}, step \in {7, 11}}
    \cup {DrawdownExample}

\* The weights of a portfolio of m assets: positive, of sum 1.
Weightings(m) ==
  IF m = 1 THEN {<<Whole(1)>>}
  ELSE {<<Rat(1, 2), Rat(1, 2)>>, <<Rat(1, 4), Rat(3, 4)>>}

\* The return series of a second asset, of n days.
SecondReturns(n) ==
  {[i \in 1..n |-> Whole(1)], [i \in 1..n |-> Whole(i % 2)],
   [i \in 1..n |-> Whole(i - 2)]}

\* The draws of setupPortfolioAnalytics: one or two assets over as many days.
AnalyticsInputs ==
  {[assetReturns |-> <<first>>, weights |-> w, numDays |-> Len(first)] :
     first \in ReturnSeries, w \in Weightings(1)}
  \cup UNION {{[assetReturns |-> <<first, second>>, weights |-> w,
                numDays |-> Len(first)] :
                 second \in SecondReturns(Len(first)), w \in Weightings(2)} :
              first \in SeqsUpTo(Drifts, 1, MaxReturns)}

----------------------------------------------------------------------------
\* The statistics of the portfolio charts: renderPortfolioStats,
\* renderPortfolioCorrelation and renderPortfolioRiskReturn.  `datasets` is
\* the sequence of the series of the tickers, in the order of Object.keys.

\* series[i], i counted from 1, undefined past the end of the array.
PointAt(series, i) == IF i \in DOMAIN series THEN series[i] ELSE Undefined

\* v != null
Present(v) == v.t \notin {"null", "undefined"}

\* script.js:1792-1800, toReturns(series): the returns of the first k steps.
RECURSIVE returnsUpTo(_, _)
returnsUpTo(series, k) ==
  IF k <= 1 THEN <<>>
  ELSE
    LET prev == series[k - 1]
        curr == series[k] IN
    IF Present(prev) /\ Present(curr)
      THEN Append(returnsUpTo(series, k - 1), Div(Sub(curr, prev), prev))
      ELSE returnsUpTo(series, k - 1)

toReturns(series) == returnsUpTo(series, Len(series))

Min(a, b) == IF a < b THEN a ELSE b

\* script.js:1811-1833: the beta of an asset against the benchmark.
beta(assetReturns, benchmarkReturns) ==
  LET n == Min(Len(assetReturns), Len(benchmarkReturns))
      meanAsset == Div(SumOf(SubSeq(assetReturns, 1, n)), Whole(n))
      meanBench == Div(SumOf(SubSeq(benchmarkReturns, 1, n)), Whole(n))
      cov == Div(SumOf([i \in 1..n |->
                          Mul(Sub(assetReturns[i], meanAsset),
                              Sub(benchmarkReturns[i], meanBench))]), Whole(n))
      varBench == Div(SumOf([i \in 1..n |->
                          Square(Sub(benchmarkReturns[i], meanBench))]), Whole(n)) IN
  IF n > 0
    THEN IF ~StrictEq(varBench, Whole(0)) THEN Div(cov, varBench) ELSE Whole(1)
    ELSE Whole(1)

\* script.js:1806-1810: the total return of a series.
totalReturn(series) ==
  LET first == {i \in DOMAIN series : Present(series[i])} IN
  IF first = {} THEN Whole(0)
  ELSE
    LET start == series[CHOOSE i \in first : \A j \in first : i <= j]
        end == series[CHOOSE i \in first : \A j \in first : j <= i] IN
    IF ~Falsy(end) /\ ~Falsy(start) THEN Div(Sub(end, start), start) ELSE Whole(0)

\* script.js:1838-1856: the return of the portfolio on each day, the mean
\* of the returns of the tickers that have one.
statsPortfolioReturns(datasets) ==
  LET firstSeries == datasets[1] IN
  [d \in 1..(IF Len(firstSeries) > 1 THEN Len(firstSeries) - 1 ELSE 0) |->
     LET having == {t \in DOMAIN datasets :
                      /\ Present(PointAt(datasets[t], d))
                      /\ Present(PointAt(datasets[t], d + 1))}
         each == [t \in DOMAIN datasets |->
                    IF t \in having
                      THEN Div(Sub(datasets[t][d + 1], datasets[t][d]), datasets[t][d])
                      ELSE Whole(0)] IN
     IF having # {} THEN Div(SumOf(each), Whole(Cardinality(having))) ELSE Whole(0)]

\* script.js:1858-1863: meanDaily and variance.
meanDaily(returns) ==
  IF Len(returns) > 0 THEN Div(SumOf(returns), Whole(Len(returns))) ELSE Whole(0)

statsVariance(returns) ==
  IF Len(returns) > 0
    THEN Div(SumOf([i \in DOMAIN returns |->
                      Square(Sub(returns[i], meanDaily(returns)))]),
             Whole(Len(returns)))
    ELSE Whole(0)

\* script.js:1864-1867
annualisedVol(returns) == Mul(Sqrt(statsVariance(returns)), Sqrt(Whole(252)))

\* A Sharpe ratio computed whatever the volatility.
sharpe_Unguarded(annualisedReturn, vol) == Div(annualisedReturn, vol)

\* script.js:1868
sharpe(annualisedReturn, vol) ==
  IF ~StrictEq(vol, Whole(0)) THEN Div(annualisedReturn, vol) ELSE Whole(0)

\* script.js:1780-1868, renderPortfolioStats(datasets, labels) with the
\* tickers `keys`: the benchmark is SPY when it is among them, the first
\* ticker otherwise.
renderPortfolioStats(keys, datasets) ==
  LET benchmark ==
        IF \E t \in DOMAIN keys : keys[t] = "SPY"
          THEN CHOOSE t \in DOMAIN keys : keys[t] = "SPY" ELSE 1
      benchmarkReturns == toReturns(datasets[benchmark])
      betas == [t \in DOMAIN datasets |-> beta(toReturns(datasets[t]), benchmarkReturns)]
      returns == statsPortfolioReturns(datasets) IN
  [benchmark |-> benchmark,
   betas |-> betas,
   avgBeta |-> Div(SumOf(betas), Whole(Len(datasets))),
   avgReturn |-> Div(SumOf([t \in DOMAIN datasets |-> totalReturn(datasets[t])]),
                     Whole(Len(datasets))),
   portfolioReturns |-> returns,
   annualisedVol |-> annualisedVol(returns),
   sharpe |-> sharpe(Mul(meanDaily(returns), Whole(252)), annualisedVol(returns))]

\* A correlation over as many returns as the first series has.
corr_Untruncated(a, b) ==
  LET n == Len(a)
      meanA == Div(SumOf(SubSeq(a, 1, n)), Whole(n))
      meanB == Div(SumOf([i \in 1..n |-> At(b, i - 1)]), Whole(n))
      da == [i \in 1..n |-> Sub(a[i], meanA)]
      db == [i \in 1..n |-> Sub(At(b, i - 1), meanB)]
      cov == SumOf([i \in 1..n |-> Mul(da[i], db[i])])
      varA == SumOf([i \in 1..n |-> Mul(da[i], da[i])])
      varB == SumOf([i \in 1..n |-> Mul(db[i], db[i])])
      denom == Sqrt(Mul(varA, varB)) IN
  IF n = 0 THEN Whole(0)
  ELSE IF StrictEq(denom, Whole(0)) THEN Whole(0) ELSE Div(cov, denom)

\* A correlation computed whatever the variances.
corr_Unguarded(a, b) ==
  LET n == Min(Len(a), Len(b))
      meanA == Div(SumOf(SubSeq(a, 1, n)), Whole(n))
      meanB == Div(SumOf(SubSeq(b, 1, n)), Whole(n))
      da == [i \in 1..n |-> Sub(a[i], meanA)]
      db == [i \in 1..n |-> Sub(b[i], meanB)]
      cov == SumOf([i \in 1..n |-> Mul(da[i], db[i])])
      varA == SumOf([i \in 1..n |-> Mul(da[i], da[i])])
      varB == SumOf([i \in 1..n |-> Mul(db[i], db[i])]) IN
  Div(cov, Sqrt(Mul(varA, varB)))

\* script.js:1919-1935, corr(a, b).
corr(a, b) ==
  LET n == Min(Len(a), Len(b))
      meanA == Div(SumOf(SubSeq(a, 1, n)), Whole(n))
      meanB == Div(SumOf(SubSeq(b, 1, n)), Whole(n))
      da == [i \in 1..n |-> Sub(a[i], meanA)]
      db == [i \in 1..n |-> Sub(b[i], meanB)]
      cov == SumOf([i \in 1..n |-> Mul(da[i], db[i])])
      varA == SumOf([i \in 1..n |-> Mul(da[i], da[i])])
      varB == SumOf([i \in 1..n |-> Mul(db[i], db[i])])
      denom == Sqrt(Mul(varA, varB)) IN
  IF n = 0 THEN Whole(0)
  ELSE IF StrictEq(denom, Whole(0)) THEN Whole(0) ELSE Div(cov, denom)

\* script.js:1898-1937, renderPortfolioCorrelation(datasets): the matrix, or
\* nothing for fewer than two tickers.
renderPortfolioCorrelation(datasets) ==
  LET returnsMap == [t \in DOMAIN datasets |-> toReturns(datasets[t])] IN
  IF Len(datasets) < 2 THEN None
  ELSE [returnsMap |-> returnsMap,
        matrix |-> [i \in DOMAIN datasets |->
                      [j \in DOMAIN datasets |-> corr(returnsMap[i], returnsMap[j])]]]

\* script.js:2084-2099, computeStats(series).
computeStats(series) ==
  LET returns == toReturns(series)
      n == Len(returns)
      mean == Div(SumOf(returns), Whole(n))
      var == Div(SumOf([i \in DOMAIN returns |-> Square(Sub(returns[i], mean))]),
                 Whole(n)) IN
  IF n = 0 THEN [avg |-> Whole(0), std |-> Whole(0)]
  ELSE [avg |-> Mul(mean, Whole(252)), std |-> Mul(Sqrt(var), Sqrt(Whole(252)))]

\* The values of a normalised series: an index value or a gap; 0 is the
\* index of a price of 0.
IndexValues == {Whole(0), Whole(50), Whole(100), Whole(200), Null}

\* The series renderPortfolioPerformance hands over: not empty, and 100 at
\* its first point that is no gap (script.js:1674-1678).
IndexSeries ==
  {s \in SeqsUpTo(IndexValues, 1, MaxReturns) :
     FirstNonNull(s) = 0 \/ s[FirstNonNull(s)] = Whole(100)}

\* The series of a second ticker.
IndexSeriesToo ==
  {<<Whole(100)>>, <<Whole(100), Whole(100)>>, <<Whole(100), Whole(50)>>,
   <<Whole(100), Whole(200), Whole(100)>>, <<Whole(100), Null, Whole(50), Whole(200)>>,
   <<Whole(100), Whole(200), Whole(100), Whole(50)>>}

\* The tickers and the datasets handed to the portfolio charts.
StatsInputs ==
  {[keys |-> <<"AAA">>, datasets |-> <<first>>] : first \in IndexSeries}
  \cup {[keys |-> keys, datasets |-> <<first, second>>] :
          keys \in {<<"AAA", "SPY">>, <<"AAA", "BBB">>},
          first \in IndexSeries, second \in IndexSeriesToo}

----------------------------------------------------------------------------
\* The statistics called.

AnalyticsInit ==
  /\ storage = [k \in Keys |-> NoItem]
  /\ now = 0
  /\ lastCall = [k \in Keys |-> None]
  /\ lastStored = [k \in Keys |-> None]
  /\ op \in {Calling("setupPortfolioAnalytics", i) : i \in AnalyticsInputs}
       \cup {Calling(fn, i) :
               fn \in {"renderPortfolioStats", "renderPortfolioCorrelation"},
               i \in StatsInputs}
       \cup {Calling("computeStats", i) : i \in IndexSeries}
  /\ inv = [s \in Slots |-> Idle]
  /\ page = None

SetupCall ==
  /\ op.name = "calling"
  /\ op.fn = "setupPortfolioAnalytics"
  /\ op' = Called("setupPortfolioAnalytics", op.input,
                  setupPortfolioAnalytics(op.input.assetReturns, op.input.weights,
                                          op.input.numDays))
  /\ UNCHANGED <<storage, now, lastCall, lastStored, inv, page>>

StatsCall ==
  /\ op.name = "calling"
  /\ op.fn = "renderPortfolioStats"
  /\ op' = Called("renderPortfolioStats", op.input,
                  renderPortfolioStats(op.input.keys, op.input.datasets))
  /\ UNCHANGED <<storage, now, lastCall, lastStored, inv, page>>

CorrelationCall ==
  /\ op.name = "calling"
  /\ op.fn = "renderPortfolioCorrelation"
  /\ op' = Called("renderPortfolioCorrelation", op.input,
                  renderPortfolioCorrelation(op.input.datasets))
  /\ UNCHANGED <<storage, now, lastCall, lastStored, inv, page>>

RiskReturnCall ==
  /\ op.name = "calling"
  /\ op.fn = "computeStats"
  /\ op' = Called("computeStats", op.input, computeStats(op.input))
  /\ UNCHANGED <<storage, now, lastCall, lastStored, inv, page>>

AnalyticsNext == SetupCall \/ StatsCall \/ CorrelationCall \/ RiskReturnCall

AnalyticsSpec == AnalyticsInit /\ [][AnalyticsNext]_vars

----------------------------------------------------------------------------
\* Properties of the statistics (AnalyticsSpec).

AllFinite(xs) == \A i \in DOMAIN xs : IsFinite(xs[i])

\* The returns are not all the same.
Varies(xs) == \E i, j \in DOMAIN xs : xs[i] # xs[j]

\* A return series of volatility 0: finite returns, all the same.
Flat(xs) == Len(xs) > 0 /\ AllFinite(xs) /\ ~Varies(xs)

\* C15: the Sharpe ratio is exactly 0 whenever the return series is flat
\* or the volatility computed from it is 0; it is then neither NaN nor
\* infinite.
C15_SharpeZero ==
  /\ (op.name = "setupPortfolioAnalytics"
        /\ (Flat(op.value.portfolioReturns) \/ StrictEq(op.value.volatility, Whole(0)))) =>
       op.value.sharpeRatio = Whole(0)
  /\ (op.name = "renderPortfolioStats"
        /\ (Flat(op.value.portfolioReturns) \/ StrictEq(op.value.annualisedVol, Whole(0)))) =>
       op.value.sharpe = Whole(0)

\* C15 witness: the returns [0, 0, 0] gave a Sharpe ratio of 0.
C15_Witness ==
  /\ op.name = "setupPortfolioAnalytics"
  /\ op.value.portfolioReturns = <<Whole(0), Whole(0), Whole(0)>>
  /\ op.value.volatility = Whole(0)
  /\ op.value.sharpeRatio = Whole(0)

\* C16: for every non-empty return series the 99% VaR is at least the 95%
\* VaR, both being numbers.
C16_VarMonotone ==
  (op.name = "setupPortfolioAnalytics" /\ Len(op.value.portfolioReturns) > 0) =>
    /\ IsFinite(op.value.var99)
    /\ IsFinite(op.value.var95)
    /\ ~Less(op.value.var99, op.value.var95)

\* C16 witness: a series long enough for the two indices to differ, with a
\* 99% VaR above the 95% VaR.
C16_Witness ==
  /\ op.name = "setupPortfolioAnalytics"
  /\ Len(op.value.portfolioReturns) >= 20
  /\ Less(op.value.var95, op.value.var99)

\* The correlation matrix a call computed, <<>> when it computed none.
Matrix ==
  IF op.name = "setupPortfolioAnalytics" THEN op.value.corrMatrix
  ELSE IF op.name = "renderPortfolioCorrelation" /\ op.value # None
    THEN op.value.matrix
  ELSE <<>>

\* C17: the correlation matrix is its own transpose, entry by entry (an
\* entry that is NaN faces a NaN), also for return series of different
\* lengths.
C17_Symmetric ==
  \A i, j \in DOMAIN Matrix : Matrix[i][j] = Matrix[j][i]

\* C17 witness: two return series of different lengths with a correlation
\* that is a number other than 0.
C17_Witness ==
  /\ op.name = "renderPortfolioCorrelation"
  /\ op.value # None
  /\ Len(op.value.returnsMap[1]) # Len(op.value.returnsMap[2])
  /\ IsFinite(Matrix[1][2])
  /\ ~IsZero(Matrix[1][2])
  /\ Matrix[2][1] = Matrix[1][2]

C19_BetaFinite ==
  op.name = "renderPortfolioStats" =>
    \A t \in DOMAIN op.value.betas :
      /\ IsFinite(op.value.betas[t])
      /\ (Min(Len(toReturns(op.input.datasets[t])),
              Len(toReturns(op.input.datasets[op.value.benchmark]))) = 0
            => op.value.betas[t] = Whole(1))

\* On finite returns the beta is a number: 1 without paired returns or with
\* a benchmark that does not vary over them.
BetaOfFiniteReturns ==
  op.name = "renderPortfolioStats" =>
    \A t \in DOMAIN op.value.betas :
      LET a == toReturns(op.input.datasets[t])
          b == toReturns(op.input.datasets[op.value.benchmark])
          n == Min(Len(a), Len(b)) IN
      (AllFinite(a) /\ AllFinite(b)) =>
        /\ IsFinite(op.value.betas[t])
        /\ ~Varies(SubSeq(b, 1, n)) => op.value.betas[t] = Whole(1)

\* The input series of a call has at most one element.
Degenerate ==
  \/ op.name = "setupPortfolioAnalytics" /\ Len(op.value.portfolioReturns) <= 1
  \/ op.name = "renderPortfolioStats"
       /\ \A t \in DOMAIN op.input.datasets : Len(op.input.datasets[t]) <= 1
  \/ op.name = "computeStats" /\ Len(op.input) <= 1

----------------------------------------------------------------------------
\* Fetches under way at the same time (ChainSpec): fetchEquitySeries and
\* fetchOilPriceSeries / fetchGasPriceSeries called while earlier calls are
\* still waiting for their providers.  A call is an activation of an async
\* function; the requests it has in flight are kept with it.

\* Calls made during a run.
MaxCalls == 2
Calls == 1..MaxCalls

\* A call that was not made yet.  `pending` holds the providers whose
\* request is in flight; `began` and `ended` number the calls in the order
\* in which they were made and in which they returned (history).
Unasked ==
  [fn |-> "none", arg |-> "", pc |-> "idle", pending |-> {}, attempts |-> <<>>,
   threw |-> FALSE, result |-> None, tier |-> "none", began |-> 0, ended |-> 0]

Began == Cardinality({c \in DOMAIN inv : inv[c].pc # "idle"})
Ended == Cardinality({c \in DOMAIN inv : inv[c].pc = "done"})

\* What the providers answer in this specification: a failure, or one bar
\* (one data item) of a valid value.
ChainResponses == {NetError, Json(TRUE, <<[at |-> 1, v |-> Num(1000)]>>)}

\* A function that sends the requests to all of its providers at once.
IssuedAtCall_AllAtOnce(fn) == IF fn = "equity" THEN {"alpaca", "alpha"} ELSE {"eia"}

\* The requests in flight when the function reaches its first await:
\* script.js:2853 (await fetchFromAlpaca()), script.js:3207 (await fetch(url)).
IssuedAtCall(fn) == IF fn = "equity" THEN {"alpaca"} ELSE {"eia"}

\* A function that goes back to its first provider when the last has failed.
IssuedAfterFailure_Retrying(fn, provider) ==
  IF fn = "equity" THEN (IF provider = "alpaca" THEN {"alpha"} ELSE {"alpaca"}) ELSE {}

\* The requests made once the request to `provider` has failed:
\* script.js:2854-2858 (AlphaVantage after Alpaca), none after the last
\* provider (script.js:2868-2871, 3221-3225).
IssuedAfterFailure(fn, provider) ==
  IF fn = "equity" /\ provider = "alpaca" THEN {"alpha"} ELSE {}

\* The function is called and runs up to its first await.
ChainCall(c, fn, arg) ==
  /\ inv[c].pc = "idle"
  /\ \A d \in Calls : d < c => inv[d].pc # "idle"
  /\ inv' = [inv EXCEPT ![c] =
       [Unasked EXCEPT !.fn = fn, !.arg = arg, !.pc = "waiting",
                       !.pending = IssuedAtCall(fn), !.began = Began + 1]]
  /\ UNCHANGED <<storage, now, lastCall, lastStored, op, page>>

\* The call returns `result`.
Returned(call, tried, result, tier) ==
  [call EXCEPT !.pc = "done", !.attempts = tried, !.result = result, !.tier = tier,
               !.ended = Ended + 1]

\* script.js:2822-2858: the request to Alpaca settles.
ChainAlpacaSettles(c, resp) ==
  /\ inv[c].pc = "waiting"
  /\ "alpaca" \in inv[c].pending
  /\ LET alpacaData == fetchFromAlpaca(resp)
         tried == Append(inv[c].attempts,
                    Attempt("alpaca", IF alpacaData = Null THEN Failed ELSE alpacaData))
         left == inv[c].pending \ {"alpaca"}
         more == IssuedAfterFailure("equity", "alpaca") IN
     inv' = [inv EXCEPT ![c] =
       IF AlpacaWins(alpacaData)
         THEN [Returned(@, tried, alpacaData, "live") EXCEPT !.pending = left]
       ELSE [@ EXCEPT !.attempts = tried, !.pending = left \cup more]]
  /\ UNCHANGED <<storage, now, lastCall, lastStored, op, page>>

\* script.js:2858-2871: the request to AlphaVantage settles.
ChainAlphaSettles(c, resp) ==
  /\ inv[c].pc = "waiting"
  /\ "alpha" \in inv[c].pending
  /\ LET r == AlphaTry(resp)
         tried == Append(inv[c].attempts,
                    Attempt("alpha", IF r.threw THEN Failed ELSE r.value))
         left == inv[c].pending \ {"alpha"}
         more == IF r.threw THEN IssuedAfterFailure("equity", "alpha") ELSE {} IN
     inv' = [inv EXCEPT ![c] =
       IF r.threw /\ more # {}
         THEN [@ EXCEPT !.attempts = tried, !.pending = left \cup more]
       ELSE [Returned(@, tried,
                      IF r.threw THEN equitySample(inv[c].arg) ELSE r.value,
                      IF r.threw THEN "synthetic" ELSE "live")
               EXCEPT !.pending = left]]
  /\ UNCHANGED <<storage, now, lastCall, lastStored, op, page>>

\* script.js:3207-3225 (3249-3266): the request to the EIA API settles.
ChainEiaSettles(c, resp, medium) ==
  /\ inv[c].pc = "waiting"
  /\ "eia" \in inv[c].pending
  /\ LET fetched == EiaTry(resp)
         r == EiaSettle(storage, medium, now, inv[c].arg, resp, 0)
         tried == Append(inv[c].attempts,
                    Attempt("eia", IF fetched.threw THEN Failed ELSE fetched.value)) IN
     /\ inv' = [inv EXCEPT ![c] =
          [Returned(@, tried, r.result, r.tier)
             EXCEPT !.pending = @ \ {"eia"}, !.threw = r.threw]]
     /\ storage' = r.storage
  /\ UNCHANGED <<now, lastCall, lastStored, op, page>>

ChainInit ==
  /\ storage = [k \in Keys |-> NoItem]
  /\ now = 0
  /\ lastCall = [k \in Keys |-> None]
  /\ lastStored = [k \in Keys |-> None]
  /\ op = NoOp
  /\ inv = [c \in Calls |-> Unasked]
  /\ page = None

ChainFetchEquity == \E c \in Calls, symbol \in Symbols : ChainCall(c, "equity", symbol)
ChainFetchEia == \E c \in Calls, feed \in Feeds : ChainCall(c, "eia", feed)
ChainAlpacaAnswers == \E c \in Calls, resp \in ChainResponses : ChainAlpacaSettles(c, resp)
ChainAlphaAnswers == \E c \in Calls, resp \in ChainResponses : ChainAlphaSettles(c, resp)
ChainEiaAnswers ==
  \E c \in Calls, resp \in ChainResponses, medium \in {"ok", "disabled"} :
    ChainEiaSettles(c, resp, medium)

ChainNext ==
  \/ ChainFetchEquity
  \/ ChainFetchEia
  \/ ChainAlpacaAnswers
  \/ ChainAlphaAnswers
  \/ ChainEiaAnswers

ChainSpec == ChainInit /\ [][ChainNext]_vars

\* Every request in flight settles in the end.
ChainFairness ==
  \A c \in Calls :
    /\ WF_vars(\E resp \in ChainResponses : ChainAlpacaSettles(c, resp))
    /\ WF_vars(\E resp \in ChainResponses : ChainAlphaSettles(c, resp))
    /\ WF_vars(\E resp \in ChainResponses, medium \in {"ok", "disabled"} :
                 ChainEiaSettles(c, resp, medium))

ChainFairSpec == ChainSpec /\ ChainFairness

----------------------------------------------------------------------------
\* Properties of the fetches under way at the same time.

\* C21: a call has at most one request in flight, to the provider that
\* comes next in its chain, and it has one to a later provider only when
\* every provider before it has settled as a failure.
C21_OneInFlight ==
  \A c \in Calls :
    /\ Cardinality(inv[c].pending) <= 1
    /\ \A p \in inv[c].pending :
         /\ Len(inv[c].attempts) < Len(Chain(inv[c].fn))
         /\ p = Chain(inv[c].fn)[Len(inv[c].attempts) + 1]
         /\ \A i \in 1..Len(inv[c].attempts) : inv[c].attempts[i].out = Failed

\* C21 witness: Alpaca has failed and the request to AlphaVantage is the
\* only one of its call in flight, while another call waits as well.
C21_Witness ==
  \E c, d \in Calls :
    /\ c # d
    /\ inv[c].pending = {"alpha"}
    /\ inv[c].attempts = <<Attempt("alpaca", Failed)>>
    /\ inv[d].pending # {}

\* A provider is asked at most once by a call.
NoRetry ==
  \A c \in Calls :
    \A i, j \in 1..Len(inv[c].attempts) :
      inv[c].attempts[i].provider = inv[c].attempts[j].provider => i = j

\* C24: every call returns in the end, given that every request settles;
\* it asks each provider of its chain at most once, and a call made later
\* does not keep it from returning.
C24_Returns ==
  /\ []NoRetry
  /\ \A c \in Calls : (inv[c].pc = "waiting") ~> (inv[c].pc = "done")

\* C24 witness: a call has returned after every provider of its chain had
\* failed, having begun before another call and ended after it.
C24_Witness ==
  \E c, d \in Calls :
    /\ inv[c].pc = "done" /\ inv[d].pc = "done"
    /\ inv[c].fn = "equity"
    /\ Len(inv[c].attempts) = 2
    /\ AllFailed(c)
    /\ inv[c].began < inv[d].began
    /\ inv[c].ended > inv[d].ended


----------------------------------------------------------------------------
\* The market ticker (MarketSpec): fetchLiveMarketData, called once by
\* initPage and then by setInterval every 60 seconds (script.js:68-70).
\* The clock counts the ticks of that timer.  The page is taken to have
\* its .market-ticker container.

\* script.js:1108: the symbols asked of AlphaVantage; the third request
\* asks CoinGecko for both coins.
alphaKeys == <<"SPY", "TSLA">>
MarketRequests == {"SPY", "TSLA", "crypto"}

Item(symbol, price, change) == [symbol |-> symbol, price |-> price, change |-> change]

\* script.js:1100-1105: the sample data, in thousandths.
fallbackMap ==
  [s \in {"SPY", "BTC", "ETH", "TSLA"} |->
     CASE s = "SPY" -> Item("SPY", Num(480120), Num(560))
       [] s = "BTC" -> Item("BTC", Num(38200000), Num(-1200))
       [] s = "ETH" -> Item("ETH", Num(2450000), Num(850))
       [] s = "TSLA" -> Item("TSLA", Num(780340), Num(2120))]

marketFallback == <<fallbackMap["SPY"], fallbackMap["BTC"], fallbackMap["ETH"], fallbackMap["TSLA"]>>

\* What a provider holds at tick t: the quote moves with the clock.  A
\* response carries the quote of the tick at which its request was sent.
LiveItem(symbol, t) == Item(symbol, Num(100000 + 1000 * t), Num(1000 * t))

\* The answers to a request: the fetch rejects (or the body is no JSON, or
\* CoinGecko sends an object instead of a list, so that list.map throws);
\* the body holds the quote; the body of AlphaVantage holds no
\* 'Global Quote' (its rate-limit note).
AnswersTo(request) ==
  IF request = "crypto" THEN {"reject", "quote"} ELSE {"reject", "quote", "note"}

Rejected == [t |-> "rejected"]
Fulfilled(items) == [t |-> "fulfilled", items |-> items]

\* script.js:1109-1124: what the promise of a request settles with.
MarketSettle(request, answer, t) ==
  IF answer = "reject" THEN Rejected
  ELSE IF request = "crypto" THEN Fulfilled(<<LiveItem("BTC", t), LiveItem("ETH", t)>>)
  ELSE IF answer = "quote" THEN Fulfilled(<<LiveItem(request, t)>>)
  ELSE Fulfilled(<<Item(request, NaN, NaN)>>)

\* script.js:1127-1136: combined, its NaN items replaced by the sample's.
combined(got) ==
  LET all == got[alphaKeys[1]].items \o got[alphaKeys[2]].items \o got["crypto"].items IN
  [i \in DOMAIN all |->
     IF IsNaN(all[i].price) \/ IsNaN(all[i].change)
       THEN fallbackMap[all[i].symbol]
       ELSE all[i]]

\* A fetchLiveMarketData that drops its result when a call made after it
\* has already stored one.
storeMarketData_UnlessSuperseded(last, data, superseded) ==
  IF superseded THEN last ELSE data

\* script.js:1138: lastMarketData = combined.
storeMarketData(last, data, superseded) == data

\* script.js:1143-1147: what the catch block renders.
marketCatch(last) == IF last # Null THEN last ELSE marketFallback

\* A timer that lets a tick pass while a call is waiting for its requests.
TimerFires_WhenIdle(calls) == \A c \in DOMAIN calls : calls[c].pc # "waiting"

\* script.js:70: setInterval(fetchLiveMarketData, 60 * 1000) calls the
\* function at every tick, whatever the earlier calls did.
TimerFires(calls) == TRUE

\* A call of fetchLiveMarketData not made yet.  `got` holds what the
\* requests settled with, `asOf` the tick of the call, `stored` whether
\* the call wrote lastMarketData.
NoMarketCall ==
  [fn |-> "none", pc |-> "idle", pending |-> {}, got |-> [r \in MarketRequests |-> None],
   asOf |-> 0, result |-> None, tier |-> "none", stored |-> FALSE,
   began |-> 0, ended |-> 0]

\* script.js:1094-1126: the call runs up to await Promise.all(...), its
\* three requests sent.
MarketCallAt(c, t) ==
  [NoMarketCall EXCEPT !.fn = "market", !.pc = "waiting", !.pending = MarketRequests,
                       !.asOf = t, !.began = c]

\* A later call has stored its result already.
Superseded(c) == \E d \in Calls : inv[d].began > inv[c].began /\ inv[d].stored

\* script.js:68-70: initPage has called fetchLiveMarketData and set the timer.
MarketInit ==
  /\ storage = [k \in Keys |-> NoItem]
  /\ now = 0
  /\ lastCall = [k \in Keys |-> None]
  /\ lastStored = [k \in Keys |-> None]
  /\ op = NoOp
  /\ inv = [c \in Calls |-> IF c = 1 THEN MarketCallAt(1, 0) ELSE NoMarketCall]
  /\ page = [lastMarketData |-> Null]

\* A tick of the timer: the next call of fetchLiveMarketData is made.
MarketTimer ==
  /\ now + 1 < MaxCalls
  /\ TimerFires(inv)
  /\ now' = now + 1
  /\ inv' = [inv EXCEPT ![now + 2] = MarketCallAt(now + 2, now + 1)]
  /\ UNCHANGED <<storage, lastCall, lastStored, op, page>>

\* A request of call c settles.  When it rejects, Promise.all rejects and
\* the catch block runs (the answers still to come are dropped); when it
\* is the last to be fulfilled, the try block runs to its end.
MarketSettles(c, request, answer) ==
  /\ inv[c].pc = "waiting"
  /\ request \in inv[c].pending
  /\ LET out == MarketSettle(request, answer, inv[c].asOf)
         got == [inv[c].got EXCEPT ![request] = out]
         left == inv[c].pending \ {request} IN
     IF out = Rejected
       THEN /\ inv' = [inv EXCEPT ![c] =
                 [@ EXCEPT !.pc = "done", !.pending = {}, !.got = got,
                           !.result = marketCatch(page.lastMarketData),
                           !.tier = IF page.lastMarketData # Null THEN "cached" ELSE "synthetic",
                           !.ended = Ended + 1]]
            /\ page' = page
     ELSE IF left = {}
       THEN /\ inv' = [inv EXCEPT ![c] =
                 [@ EXCEPT !.pc = "done", !.pending = {}, !.got = got,
                           !.result = combined(got), !.tier = "live",
                           !.stored =
                             storeMarketData(Null, combined(got), Superseded(c)) # Null,
                           !.ended = Ended + 1]]
            /\ page' = [page EXCEPT !.lastMarketData =
                          storeMarketData(@, combined(got), Superseded(c))]
     ELSE /\ inv' = [inv EXCEPT ![c] = [@ EXCEPT !.pending = left, !.got = got]]
          /\ page' = page
  /\ UNCHANGED <<storage, now, lastCall, lastStored, op>>

MarketAnswers ==
  \E c \in Calls, request \in MarketRequests :
    \E answer \in AnswersTo(request) : MarketSettles(c, request, answer)

MarketNext == MarketTimer \/ MarketAnswers

MarketSpec == MarketInit /\ [][MarketNext]_vars

----------------------------------------------------------------------------
\* Properties of the market ticker.

\* C22: nothing discards the result of a call that was overtaken: every
\* call whose requests were all fulfilled stores its result in
\* lastMarketData, whether or not a call made after it has stored one.
C22_NeverDiscarded ==
  [][\A c \in Calls :
       (inv[c].pc = "waiting" /\ inv'[c].pc = "done" /\ inv'[c].tier = "live") =>
         page'.lastMarketData = inv'[c].result]_vars

\* C22 witness: of two calls the one made first returned last, and its
\* older quotes have replaced those the later call had stored.
C22_Witness ==
  \E c, d \in Calls :
    /\ inv[c].tier = "live" /\ inv[d].tier = "live"
    /\ inv[c].began < inv[d].began
    /\ inv[c].asOf < inv[d].asOf
    /\ inv[c].ended > inv[d].ended
    /\ inv[c].result # inv[d].result
    /\ page.lastMarketData = inv[c].result

\* C23: at every tick the timer makes a new call of fetchLiveMarketData,
\* with its requests sent: the tick is there to be taken whatever the
\* earlier calls did (as long as the run has calls left), and taking it
\* starts a call.
C23_EveryTick ==
  /\ [](now + 1 < MaxCalls => ENABLED MarketTimer)
  /\ [][now' # now =>
         \E c \in Calls :
           /\ inv[c].pc = "idle"
           /\ inv'[c].pc = "waiting"
           /\ inv'[c].pending = MarketRequests]_vars

\* C23 witness: two calls are waiting for their requests at once, the
\* second made by a tick while the first was in flight.
C23_Witness ==
  \E c, d \in Calls :
    /\ inv[c].pc = "waiting" /\ inv[d].pc = "waiting"
    /\ inv[c].asOf < inv[d].asOf
    /\ inv[c].pending # {} /\ inv[d].pending # {}


----------------------------------------------------------------------------
\* Fetches that cache under a key made from their argument (KeyedSpec):
\* fetchOptionData(underlying) and fetchGeminiAssetAnalysis(symbol), called
\* for the symbol selected on the page, calls overlapping.

\* The key `optionData:${underlying}` or `geminiAnalysis:${symbol}`.
CacheKey(prefix, symbol) == <<prefix, symbol>>
KeyedKeys == {CacheKey(prefix, symbol) : prefix \in {"optionData", "geminiAnalysis"}, symbol \in Symbols}

\* A payload: what a provider sent about a symbol, or what the code made
\* up.  The sample option chain is the same for every underlying
\* (script.js:3814-3850); the fallback analysis names its symbol
\* (script.js:2650-2657).
Payload(kind, about, origin) == [t |-> kind, about |-> about, origin |-> origin]
optionSample == Payload("chain", "any", "sample")
analysisFallback(symbol) == Payload("analysis", symbol, "sample")

\* The answers of Polygon: the fetch rejects; no results; contracts with
\* strike, implied volatility and open interest; contracts none of which
\* has all three.  The answers of Gemini: the fetch rejects; no text among
\* the candidates; the text of an analysis.
KeyedAnswers(fn) ==
  IF fn = "option" THEN {"reject", "empty", "contracts", "unpriced"}
  ELSE {"reject", "empty", "analysis"}

\* script.js:3851-3908, the try block of fetchOptionData up to `result`.
OptionTry(underlying, answer) ==
  IF answer \in {"reject", "empty"} THEN Throw
  ELSE IF answer = "contracts" THEN Return(Payload("chain", underlying, "live"))
  ELSE Return(optionSample)      \* sortedStrikes.length is 0: sample()

\* script.js:3851-3917 from the moment the request settles.
OptionSettle(st, medium, ts, last, underlying, answer) ==
  LET key == CacheKey("optionData", underlying)
      fetched == OptionTry(underlying, answer)
      saved == saveToCache(st, medium, ts, key, fetched.value)
      cached == loadFromCache(st, medium, key).value IN
  IF ~fetched.threw
    THEN [result |-> fetched.value, tier |-> "live", storage |-> saved.storage, last |-> last]
  ELSE IF Truthy(cached)
    THEN [result |-> cached, tier |-> "cached", storage |-> st, last |-> last]
  ELSE [result |-> optionSample, tier |-> "synthetic", storage |-> st, last |-> last]

\* script.js:2684: lastGeminiAnalysis as the fallback reads it, whatever
\* the symbol.
lastAnalysisFor(last, symbol) == last

\* script.js:2658-2684 from the moment the request settles.
GeminiSettle(st, medium, ts, last, symbol, answer) ==
  LET key == CacheKey("geminiAnalysis", symbol)
      data == Payload("analysis", symbol, "live")
      saved == saveToCache(st, medium, ts, key, data)
      cached == loadFromCache(st, medium, key).value
      remembered == lastAnalysisFor(last, symbol) IN
  IF answer = "analysis"
    THEN [result |-> data, tier |-> "live", storage |-> saved.storage, last |-> data]
  ELSE IF Truthy(cached)
    THEN [result |-> cached, tier |-> "cached", storage |-> st, last |-> last]
  ELSE IF Truthy(remembered)
    THEN [result |-> remembered, tier |-> "memory", storage |-> st, last |-> last]
  ELSE [result |-> analysisFallback(symbol), tier |-> "synthetic", storage |-> st, last |-> last]

KeyedSettle(fn, st, medium, ts, last, symbol, answer) ==
  IF fn = "option" THEN OptionSettle(st, medium, ts, last, symbol, answer)
  ELSE GeminiSettle(st, medium, ts, last, symbol, answer)

KeyedInit ==
  /\ storage = [k \in KeyedKeys |-> NoItem]
  /\ now = 0
  /\ lastCall = [k \in Keys |-> None]
  /\ lastStored = [k \in Keys |-> None]
  /\ op = NoOp
  /\ inv = [c \in Calls |-> Unasked]
  /\ page = [lastGeminiAnalysis |-> Null]

\* script.js:3812-3853, 2649-2666: the function is called and sends its request.
KeyedCall(c, fn, symbol) ==
  /\ inv[c].pc = "idle"
  /\ \A d \in Calls : d < c => inv[d].pc # "idle"
  /\ inv' = [inv EXCEPT ![c] =
       [Unasked EXCEPT !.fn = fn, !.arg = symbol, !.pc = "waiting",
                       !.pending = {fn}, !.began = Began + 1]]
  /\ UNCHANGED <<storage, now, lastCall, lastStored, op, page>>

\* The request of call c settles and the function returns.
KeyedSettles(c, answer, medium) ==
  /\ inv[c].pc = "waiting"
  /\ inv[c].fn \in inv[c].pending
  /\ answer \in KeyedAnswers(inv[c].fn)
  /\ LET r == KeyedSettle(inv[c].fn, storage, medium, now, page.lastGeminiAnalysis,
                          inv[c].arg, answer) IN
     /\ inv' = [inv EXCEPT ![c] =
          [Returned(@, <<Attempt(inv[c].fn, IF r.tier = "live" THEN r.result ELSE Failed)>>,
                    r.result, r.tier) EXCEPT !.pending = {}]]
     /\ storage' = r.storage
     /\ page' = [page EXCEPT !.lastGeminiAnalysis = r.last]
  /\ UNCHANGED <<now, lastCall, lastStored, op>>

FetchOption == \E c \in Calls, symbol \in Symbols : KeyedCall(c, "option", symbol)
FetchGemini == \E c \in Calls, symbol \in Symbols : KeyedCall(c, "gemini", symbol)
KeyedAnswer ==
  \E c \in Calls, answer \in {"reject", "empty", "contracts", "unpriced", "analysis"},
     medium \in {"ok", "quota"} :
    KeyedSettles(c, answer, medium)

KeyedNext == FetchOption \/ FetchGemini \/ KeyedAnswer

KeyedSpec == KeyedInit /\ [][KeyedNext]_vars

----------------------------------------------------------------------------
\* Properties of the keyed fetches.

\* The payloads the cache holds.
CachedPayloads ==
  {storage[k].data : k \in {k \in DOMAIN storage : EntryExists(storage[k], "ok")}}

\* C27 as claimed: every payload in the cache and the analysis kept in
\* lastGeminiAnalysis came from a provider, none was made up; and so does
\* every payload a fetch returns as cached or remembered.
C27_OnlyLive ==
  /\ \A data \in CachedPayloads : data.origin = "live"
  /\ page.lastGeminiAnalysis # Null => page.lastGeminiAnalysis.origin = "live"
  /\ \A c \in Calls :
       inv[c].tier \in {"cached", "memory"} => inv[c].result.origin = "live"

\* The entry under a key was written by a fetch for the symbol of the key.
CacheKeysIsolated ==
  \A k \in DOMAIN storage :
    EntryExists(storage[k], "ok") =>
      \/ storage[k].data.about = k[2]
      \/ storage[k].data = optionSample

\* C28 as claimed: a payload returned as cached or remembered for a symbol
\* came from a fetch for that symbol.
C28_KeysIsolated ==
  \A c \in Calls :
    inv[c].tier \in {"cached", "memory"} =>
      \/ inv[c].result.about = inv[c].arg
      \/ inv[c].result = optionSample


----------------------------------------------------------------------------
\* Further properties of the statistics (AnalyticsSpec).

\* The positions of a series at which it and the next position hold a value.
PairsOf(series) ==
  {i \in 1..(Len(series) - 1) : Present(series[i]) /\ Present(series[i + 1])}

\* The k-th smallest element of a set of numbers.
Nth(S, k) == CHOOSE i \in S : Cardinality({j \in S : j <= i}) = k

\* The returns of a series over its pairs of present values, in order.
PairReturns(series) ==
  [k \in 1..Cardinality(PairsOf(series)) |->
     LET i == Nth(PairsOf(series), k) IN
     Div(Sub(series[i + 1], series[i]), series[i])]

\* The days on which a ticker at least has a return.
DaysWithReturn(datasets) ==
  {d \in 1..(Len(datasets[1]) - 1) : \E t \in DOMAIN datasets : d \in PairsOf(datasets[t])}

\* The return series of each ticker holds the returns of its pairs of
\* present values and nothing else.
AssetReturnsSkipAbsent ==
  (op.name = "renderPortfolioCorrelation" /\ op.value # None) =>
    \A t \in DOMAIN op.input.datasets :
      op.value.returnsMap[t] = PairReturns(op.input.datasets[t])

\* C25 as claimed: a position with a value absent adds nothing to a
\* return series: the series of a ticker holds the returns of its pairs of
\* present values, and the series of the portfolio has an entry for the
\* days only on which a ticker has a return.
C25_AbsentSkipped ==
  /\ AssetReturnsSkipAbsent
  /\ op.name = "renderPortfolioStats" =>
       Len(op.value.portfolioReturns) = Cardinality(DaysWithReturn(op.input.datasets))

\* C26: the max drawdown is the largest gap, over the positions t, between
\* the running peak of the cumulative returns (0 at least) and the
\* cumulative return at t; it is never negative, it is 0 when the
\* cumulative return is at its peak at every position, and for the
\* returns 0.01, 0.03, -0.02, 0.01 it is 0.02.
C26_MaxDrawdown ==
  op.name = "setupPortfolioAnalytics" =>
    LET returns == op.value.portfolioReturns
        dd == Div(op.value.maxDrawdown, Whole(100))
        cum(t) == SumOf(SubSeq(returns, 1, t))
        IsPeak(p, t) ==
          /\ p \in {Whole(0)} \cup {cum(s) : s \in 1..t}
          /\ ~Less(p, Whole(0))
          /\ \A s \in 1..t : ~Less(p, cum(s))
        peak(t) == CHOOSE p \in {Whole(0)} \cup {cum(s) : s \in 1..t} : IsPeak(p, t) IN
    /\ \A t \in 1..Len(returns) : ~Less(dd, Sub(peak(t), cum(t)))
    /\ \/ dd = Whole(0)
       \/ \E t \in 1..Len(returns) : dd = Sub(peak(t), cum(t))
    /\ ~Less(dd, Whole(0))
    /\ (\A t \in 1..Len(returns) : cum(t) = peak(t)) => dd = Whole(0)
    /\ returns = DrawdownExample => dd = Rat(2, 100)

\* C26 witness: the returns 0.01, 0.03, -0.02, 0.01 gave a max drawdown
\* of 2 percent.
C26_Witness ==
  /\ op.name = "setupPortfolioAnalytics"
  /\ op.value.portfolioReturns = DrawdownExample
  /\ op.value.maxDrawdown = Whole(2)


----------------------------------------------------------------------------
\* The watchlist (WatchlistSpec): initWatchlist, the add and remove
\* handlers, renderWatchlist and fetchWatchlistData, which is called by
\* renderWatchlist and by setInterval every five minutes (script.js:100).
\* The page holds watchlistTickers, lastWatchlistData and the tickers shown
\* in the list element (each with its remove button).

WatchTickers == {"AAA", "BBB"}

\* The text of a JSON array of tickers.
ListText(list) == [t |-> "text", body |-> "list", list |-> list]

\* script.js:5675-5679: the tickers initWatchlist reads from a stored text.
storedTickers(cell) ==
  IF cell.t = "text" /\ cell.body = "list" THEN cell.list ELSE <<>>

\* localStorage.setItem(key, text): throws when the medium does not take it.
setItem(st, medium, key, text) ==
  IF medium # "ok" THEN [threw |-> TRUE, storage |-> st]
  ELSE [threw |-> FALSE, storage |-> [st EXCEPT ![key] = text]]

Range(list) == {list[i] : i \in DOMAIN list}

\* watchlistTickers.filter(t => t !== ticker)
RECURSIVE filterOut(_, _)
filterOut(list, ticker) ==
  IF list = <<>> THEN <<>>
  ELSE IF list[1] = ticker THEN filterOut(Tail(list), ticker)
  ELSE <<list[1]>> \o filterOut(Tail(list), ticker)

\* An entry of lastWatchlistData.
Quote(price, change) == [t |-> "quote", price |-> price, change |-> change]

\* What the providers answer with: Alpaca two bars of the same close, a
\* change of 0 (script.js:5775-5786); AlphaVantage a quote with a change.
alpacaQuote == Quote(Num(150000), Num(0))
alphaQuote == Quote(Num(151000), Num(500))

\* v || null
OrNull(v) == IF Truthy(v) THEN v ELSE Null

\* script.js:5809-5811, the catch block: the last values, or null.
lastKnown(entry) ==
  IF entry = Undefined THEN Quote(Null, Null)
  ELSE Quote(OrNull(entry.price), OrNull(entry.change))

\* script.js:5748-5752: renderWatchlist gives every ticker an entry.
withDefaults(data, list) ==
  [s \in WatchTickers |->
     IF s \in Range(list) /\ data[s] = Undefined THEN Quote(Null, Null) ELSE data[s]]

\* A call of fetchWatchlistData not made yet.  `stage` tells for each
\* ticker of the call which request is in flight ("alpaca", "alpha") or
\* where its result came from ("live", "cached"); `failed` whether both of
\* its providers have failed.
NoWatchCall ==
  [pc |-> "idle", tickers |-> <<>>,
   stage |-> [s \in WatchTickers |-> "none"],
   results |-> [s \in WatchTickers |-> Undefined],
   began |-> 0, ended |-> 0]

\* script.js:5756-5776: fetchWatchlistData() with a watchlist of `list`.
\* With an empty list it returns at once; otherwise the next call is under
\* way, a request to Alpaca sent for each ticker.
fetchWatchlistData(calls, list) ==
  IF list = <<>> THEN calls
  ELSE [calls EXCEPT ![Cardinality({c \in DOMAIN calls : calls[c].pc # "idle"}) + 1] =
          [NoWatchCall EXCEPT
             !.pc = "waiting", !.tickers = list,
             !.stage = [s \in WatchTickers |-> IF s \in Range(list) THEN "alpaca" ELSE "none"],
             !.began = Cardinality({c \in DOMAIN calls : calls[c].pc # "idle"}) + 1]]

\* A fetchWatchlistData can be called: the run has calls left.
CallsLeft == Began < MaxCalls

\* script.js:5698-5753: renderWatchlist().  With an empty watchlist it
\* shows a note and returns.
renderWatchlist(pg) ==
  IF pg.watchlistTickers = <<>> THEN [pg EXCEPT !.shown = <<>>]
  ELSE [pg EXCEPT !.shown = pg.watchlistTickers,
                  !.lastWatchlistData = withDefaults(@, pg.watchlistTickers)]

\* What may lie under 'watchlist' when the page loads.
WatchlistCells ==
  {NoItem, GarbageText, JsonOtherText, ListText(<<"AAA">>)}

\* script.js:5667-5681: initWatchlist has read the stored list and
\* rendered it.
WatchlistInit ==
  /\ storage \in [{"watchlist"} -> WatchlistCells]
  /\ now = 0
  /\ lastCall = [k \in Keys |-> None]
  /\ lastStored = [k \in Keys |-> None]
  /\ op = NoOp
  /\ page = renderWatchlist(
       [watchlistTickers |-> storedTickers(storage["watchlist"]),
        lastWatchlistData |-> [s \in WatchTickers |-> Undefined],
        shown |-> <<>>])
  /\ inv = fetchWatchlistData([c \in Calls |-> NoWatchCall],
                              storedTickers(storage["watchlist"]))

\* script.js:5683-5691: addTickerHandler with `val` in the input.  When
\* setItem throws, the handler ends there.
AddTicker(val, medium) ==
  LET pushed == Append(page.watchlistTickers, val)
      set == setItem(storage, medium, "watchlist", ListText(pushed)) IN
  /\ val \notin Range(page.watchlistTickers)
  /\ set.threw \/ CallsLeft
  /\ storage' = set.storage
  /\ page' = IF set.threw THEN [page EXCEPT !.watchlistTickers = pushed]
             ELSE renderWatchlist([page EXCEPT !.watchlistTickers = pushed])
  /\ inv' = IF set.threw THEN inv ELSE fetchWatchlistData(inv, pushed)
  /\ op' = [name |-> "add", key |-> val, medium |-> medium, threw |-> set.threw,
            value |-> None]
  /\ UNCHANGED <<now, lastCall, lastStored>>

\* script.js:5732-5736: a click on the remove button of a ticker shown.
RemoveTicker(ticker, medium) ==
  LET filtered == filterOut(page.watchlistTickers, ticker)
      set == setItem(storage, medium, "watchlist", ListText(filtered)) IN
  /\ ticker \in Range(page.shown)
  /\ set.threw \/ filtered = <<>> \/ CallsLeft
  /\ storage' = set.storage
  /\ page' = IF set.threw THEN [page EXCEPT !.watchlistTickers = filtered]
             ELSE renderWatchlist([page EXCEPT !.watchlistTickers = filtered])
  /\ inv' = IF set.threw THEN inv ELSE fetchWatchlistData(inv, filtered)
  /\ op' = [name |-> "remove", key |-> ticker, medium |-> medium, threw |-> set.threw,
            value |-> None]
  /\ UNCHANGED <<now, lastCall, lastStored>>

\* script.js:100: a tick of setInterval(fetchWatchlistData, 5 * 60 * 1000)
\* with tickers on the watchlist.
WatchlistTimer ==
  /\ page.watchlistTickers # <<>>
  /\ CallsLeft
  /\ inv' = fetchWatchlistData(inv, page.watchlistTickers)
  /\ UNCHANGED <<storage, now, lastCall, lastStored, op, page>>

\* The promise of ticker `sym` of call c has its result.  When it was the
\* last of the call, Promise.all is fulfilled and the results are written
\* to lastWatchlistData (script.js:5815-5817).
WatchResult(c, sym, stage, result) ==
  LET call == [inv[c] EXCEPT !.stage[sym] = stage, !.results[sym] = result]
      all == \A s \in Range(call.tickers) : call.stage[s] \in {"live", "cached"} IN
  /\ inv' = [inv EXCEPT ![c] =
       IF all THEN [call EXCEPT !.pc = "done", !.ended = Ended + 1] ELSE call]
  /\ page' = IF all
       THEN [page EXCEPT !.lastWatchlistData =
               [s \in WatchTickers |->
                  IF s \in Range(call.tickers) THEN call.results[s] ELSE @[s]]]
       ELSE page

\* script.js:5763-5795: the request to Alpaca for a ticker settles; when
\* it failed, the request to AlphaVantage is sent.
WatchAlpacaSettles(c, sym, answer) ==
  /\ inv[c].pc = "waiting"
  /\ inv[c].stage[sym] = "alpaca"
  /\ IF answer = "quote"
       THEN WatchResult(c, sym, "live", alpacaQuote)
       ELSE /\ inv' = [inv EXCEPT ![c].stage[sym] = "alpha"]
            /\ page' = page
  /\ UNCHANGED <<storage, now, lastCall, lastStored, op>>

\* script.js:5796-5812: the request to AlphaVantage for a ticker settles.
WatchAlphaSettles(c, sym, answer) ==
  /\ inv[c].pc = "waiting"
  /\ inv[c].stage[sym] = "alpha"
  /\ IF answer = "quote"
       THEN WatchResult(c, sym, "live", alphaQuote)
       ELSE WatchResult(c, sym, "cached", lastKnown(page.lastWatchlistData[sym]))
  /\ UNCHANGED <<storage, now, lastCall, lastStored, op>>

AddTickerClick == \E val \in WatchTickers, medium \in {"ok", "quota"} : AddTicker(val, medium)
RemoveClick == \E ticker \in WatchTickers, medium \in {"ok", "quota"} : RemoveTicker(ticker, medium)
WatchAlpacaAnswers ==
  \E c \in Calls, sym \in WatchTickers, answer \in {"reject", "quote"} :
    WatchAlpacaSettles(c, sym, answer)
WatchAlphaAnswers ==
  \E c \in Calls, sym \in WatchTickers, answer \in {"reject", "quote"} :
    WatchAlphaSettles(c, sym, answer)

WatchlistNext ==
  \/ AddTickerClick
  \/ RemoveClick
  \/ WatchlistTimer
  \/ WatchAlpacaAnswers
  \/ WatchAlphaAnswers

WatchlistSpec == WatchlistInit /\ [][WatchlistNext]_vars

----------------------------------------------------------------------------
\* Properties of the watchlist.

\* An entry without values and no entry at all count as the same.
Known(entry) == IF entry = Undefined THEN Quote(Null, Null) ELSE entry

\* C29 as claimed: when a call of fetchWatchlistData returns, the entry of
\* lastWatchlistData of every ticker both of whose providers failed is
\* what it was before.
C29_FailureKeepsLastGood ==
  [][\A c \in Calls :
       (inv[c].pc = "waiting" /\ inv'[c].pc = "done") =>
         \A s \in Range(inv'[c].tickers) :
           inv'[c].stage[s] = "cached" =>
             Known(page'.lastWatchlistData[s]) = Known(page.lastWatchlistData[s])]_vars

\* C30 as claimed: the list stored under 'watchlist', as initWatchlist reads
\* it, is the watchlist in memory.
C30_PersistedIsInMemory ==
  storedTickers(storage["watchlist"]) = page.watchlistTickers

====
